---- MODULE Spec2Model ----
(***************************************************************************)
(* AdobePassIE._extract_mvpd_auth (yt_dlp/extractor/adobepass.py): the      *)
(* broker token exchange, its token cache, the form/redirect helpers and    *)
(* the provider login drivers, as a state machine.  One action is one       *)
(* network round trip of the exchange together with the local code that     *)
(* runs between the previous response and that request.                     *)
(***************************************************************************)
EXTENDS Integers, Sequences, FiniteSets, TLC

VARIABLES
    ex,     \* ex[p]: the locals of call p of _extract_mvpd_auth
    cache,  \* self.cache, namespace 'ap-mvpd': requestor id -> stored record
    now,    \* int(time.time())
    arg,    \* input of the helper under test, or how two calls are scheduled
    ret     \* its result

vars == <<ex, cache, now, arg, ret>>

(***************************** bounds **************************************)
StartTime == 1
MaxTime == 2

(************************* program constants *******************************)
\* for _ in range(2)
MaxPasses == 2

\* 'authn_token': the key of the session token in the cached record
AUTHN_KEY == "authn_token"

BrokerHost == "sp.auth.adobe.com"
EvilHost == "evil.example.com"
IdpHost == "idp.example.com"

\* outcomes of a call
E_REQUIRED == "mvpd_required"
E_REGEX == "regex_not_found"
E_HOST == "hostname_mismatch"
E_CREDS == "invalid_credentials"
E_BROKER == "broker_error"
E_NET == "transport_error"
E_KEY == "key_error"
E_ATTR == "attribute_error"
E_URL == "invalid_url"
RETURNED == "returned"
FELL_THROUGH == "returned_none"

USER == "the-username"
PASS == "the-password"
Secrets == {USER, PASS}

(************************* expiry fields and tokens ************************)
\* The text of a simpleTokenExpires / simpleTokenTTL element.
Absent == [k |-> "absent", secs |-> 0, gmt |-> FALSE]
Junk == [k |-> "junk", secs |-> 0, gmt |-> FALSE]
Date(n) == [k |-> "date", secs |-> n, gmt |-> TRUE]
Future == Date(MaxTime + 1)

\* A token: an opaque XML fragment, searched element by element.
Token(id, expires, ttl, tags) ==
    [id |-> id, expires |-> expires, ttl |-> ttl, tags |-> tags, esc |-> FALSE]
NoToken == Token("none", Absent, Absent, FALSE)

\* unescapeHTML
unescapeHTML(tok) == [tok EXCEPT !.esc = FALSE]
Escaped(tok) == [tok EXCEPT !.esc = TRUE]

\* InfoExtractor._search_regex with its defaults (fatal, no default): the
\* match, or RegexNotFoundError when the pattern does not match.
search_regex(found, val) == [err |-> IF found THEN "" ELSE E_REGEX, val |-> val]

HasTag(tok, tag) ==
    /\ ~tok.esc
    /\ CASE tag = "simpleTokenExpires" -> tok.expires.k # "absent"
         [] tag = "simpleTokenTTL" -> tok.ttl.k # "absent"
         [] OTHER -> tok.tags

TagText(tok, tag) ==
    CASE tag = "simpleTokenExpires" -> tok.expires
      [] tag = "simpleTokenTTL" -> tok.ttl
      [] OTHER -> Junk

xml_text(xml_str, tag) == search_regex(HasTag(xml_str, tag), TagText(xml_str, tag))

\* re.sub(r'[_ ]GMT', '', text)
StripGMT(text) == [text EXCEPT !.gmt = FALSE]

\* utils.unified_timestamp: None for a text that is no date
unified_timestamp(text) ==
    IF text.k = "date" /\ ~text.gmt
    THEN [none |-> FALSE, secs |-> text.secs]
    ELSE [none |-> TRUE, secs |-> 0]

\* Python truthiness of a timestamp-or-None
Truthy(ts) == ~ts.none /\ ts.secs # 0

\* is_expired with the comparison turned round (token_expires >= now)
is_expired_reversed(token, date_ele, t) ==
    LET x == xml_text(token, date_ele)
        token_expires == unified_timestamp(StripGMT(x.val))
    IN  IF x.err # "" THEN [err |-> x.err, val |-> FALSE]
        ELSE [err |-> "", val |-> Truthy(token_expires) /\ token_expires.secs >= t]

is_expired(token, date_ele, t) ==
    LET x == xml_text(token, date_ele)
        token_expires == unified_timestamp(StripGMT(x.val))
    IN  IF x.err # "" THEN [err |-> x.err, val |-> FALSE]
        ELSE [err |-> "", val |-> Truthy(token_expires) /\ token_expires.secs <= t]

(***************************** cached records ******************************)
EmptyRecord == [k \in {} |-> NoToken]
Get(r, k) == IF k \in DOMAIN r THEN r[k] ELSE NoToken
Put(r, k, v) == [x \in DOMAIN r \cup {k} |-> IF x = k THEN v ELSE r[x]]

Unstored == [stored |-> FALSE, data |-> EmptyRecord]
Stored(r) == [stored |-> TRUE, data |-> r]

\* Cache.load: the stored value, or None
cache_load(c, rid) == [none |-> ~c[rid].stored, data |-> c[rid].data]
\* Cache.store
cache_store(c, rid, r) == [c EXCEPT ![rid] = Stored(r)]

\* load_requestor_info without the 'or {}': None for an id never stored
load_requestor_info_or_none(c, rid) ==
    LET v == cache_load(c, rid)
    IN  [none |-> v.none, data |-> v.data]

\* self.cache.load(self._MVPD_CACHE, requestor_id) or {}
load_requestor_info(c, rid) ==
    LET v == cache_load(c, rid)
    IN  [none |-> FALSE, data |-> IF v.none THEN EmptyRecord ELSE v.data]

(***************************** provider profiles ***************************)
\* MSO_INFO[mso_id]; login_hostname and password_field "" when the profile
\* declares none
MSO_INFO(mso) ==
    CASE mso = "Comcast_SSO" ->
            [username_field |-> "user", password_field |-> "passwd",
             login_hostname |-> "login.xfinity.com"]
      [] mso = "Verizon" ->
            [username_field |-> "IDToken1", password_field |-> "IDToken2",
             login_hostname |-> "ssoauth.verizon.com"]
      [] mso = "slingtv" ->
            [username_field |-> "username", password_field |-> "password",
             login_hostname |-> "identity.sling.com"]
      [] mso = "Cablevision" ->
            [username_field |-> "j_username", password_field |-> "j_password",
             login_hostname |-> ""]
      [] mso = "Rogers" ->
            [username_field |-> "UserName", password_field |-> "UserPassword",
             login_hostname |-> ""]
      [] mso \in {"Spectrum", "Charter_Direct"} ->
            [username_field |-> "IDToken1", password_field |-> "IDToken2",
             login_hostname |-> ""]
      [] mso = "Philo" ->
            [username_field |-> "ident", password_field |-> "", login_hostname |-> ""]
      [] OTHER ->
            [username_field |-> "username", password_field |-> "password",
             login_hostname |-> ""]

(***************************** URLs, pages, forms **************************)
Url(scheme, host, path) == [scheme |-> scheme, host |-> host, path |-> path, esc |-> FALSE]
BrokerUrl(path) == Url("https", BrokerHost, path)
NoUrl == Url("", "", "")

NoFields == [k \in {} |-> ""]
Merge(f, g) == [k \in DOMAIN f \cup DOMAIN g |-> IF k \in DOMAIN g THEN g[k] ELSE f[k]]

\* The action attribute of the page's form, or the target of its meta
\* refresh: none, a path, //host/path, or scheme://host/path.
NoRef == [k |-> "none", url |-> NoUrl]
Rel(path) == [k |-> "rel", url |-> Url("", "", path)]
NetLoc(host, path) == [k |-> "netloc", url |-> Url("", host, path)]
Abs(scheme, host, path) == [k |-> "abs", url |-> Url(scheme, host, path)]

\* urllib.parse.urljoin(base, ref)
urljoin(base, ref) ==
    CASE ref.k = "abs" -> ref.url
      [] ref.k = "netloc" -> [ref.url EXCEPT !.scheme = base.scheme]
      [] OTHER -> [base EXCEPT !.path = ref.url.path, !.esc = ref.url.esc]

\* A downloaded page and its handle: (webpage, urlh).  handle is FALSE where
\* the caller passes a plain string in place of the response handle.
Page(url, action, hidden, marks, refresh) ==
    [url |-> url, handle |-> TRUE, action |-> action, hidden |-> hidden,
     marks |-> marks, refresh |-> refresh]
NoPage == Page(NoUrl, NoRef, NoFields, {}, NoRef)

\* A request as it goes out on the wire.
Req(kind, pass, url, data, headers) ==
    [kind |-> kind, pass |-> pass, url |-> url, data |-> data, headers |-> headers]
Carries(req) == \E k \in DOMAIN req.data : req.data[k] \in Secrets

\* re.match(r'https?://', post_url)
IsHttpUrl(ref) == ref.k = "abs" /\ ref.url.scheme \in {"http", "https"}

\* lines 1416-1418: the form action, joined to the page's url unless it is
\* an http(s) url itself
resolved_post_url(form_page_res) ==
    IF IsHttpUrl(form_page_res.action) THEN form_page_res.action.url
    ELSE urljoin(form_page_res.url, form_page_res.action)

\* post_form that never validates (validate_url ignored)
post_form_unvalidated(form_page_res, data, validate_url, mso_info) ==
    LET act == form_page_res.action
    IN  IF act.k = "none" THEN [err |-> E_REGEX, url |-> NoUrl, data |-> NoFields]
        ELSE IF ~IsHttpUrl(act) /\ ~form_page_res.handle
             THEN [err |-> E_ATTR, url |-> NoUrl, data |-> NoFields]
        ELSE [err |-> "", url |-> resolved_post_url(form_page_res),
              data |-> Merge(form_page_res.hidden, data)]

\* post_form that compares login_hostname with the host of the page the
\* form was served from, not with the host of the resolved action
post_form_page_host(form_page_res, data, validate_url, mso_info) ==
    LET act == form_page_res.action
        post_url == resolved_post_url(form_page_res)
    IN  IF act.k = "none" THEN [err |-> E_REGEX, url |-> NoUrl, data |-> NoFields]
        ELSE IF ~IsHttpUrl(act) /\ ~form_page_res.handle
             THEN [err |-> E_ATTR, url |-> NoUrl, data |-> NoFields]
        ELSE IF validate_url /\ mso_info.login_hostname # ""
                /\ mso_info.login_hostname # form_page_res.url.host
             THEN [err |-> E_HOST, url |-> NoUrl, data |-> NoFields]
        ELSE [err |-> "",
              url |-> IF validate_url THEN [post_url EXCEPT !.scheme = "https"] ELSE post_url,
              data |-> Merge(form_page_res.hidden, data)]

\* post_form that validates the host but leaves the scheme as it is
post_form_no_upgrade(form_page_res, data, validate_url, mso_info) ==
    LET act == form_page_res.action
        post_url == resolved_post_url(form_page_res)
    IN  IF act.k = "none" THEN [err |-> E_REGEX, url |-> NoUrl, data |-> NoFields]
        ELSE IF ~IsHttpUrl(act) /\ ~form_page_res.handle
             THEN [err |-> E_ATTR, url |-> NoUrl, data |-> NoFields]
        ELSE IF validate_url /\ mso_info.login_hostname # ""
                /\ mso_info.login_hostname # post_url.host
             THEN [err |-> E_HOST, url |-> NoUrl, data |-> NoFields]
        ELSE [err |-> "", url |-> post_url, data |-> Merge(form_page_res.hidden, data)]

\* post_form whose merge lets the page's hidden inputs win over the caller
post_form_hidden_wins(form_page_res, data, validate_url, mso_info) ==
    LET post_url == resolved_post_url(form_page_res)
    IN  IF form_page_res.action.k = "none"
        THEN [err |-> E_REGEX, url |-> NoUrl, data |-> NoFields]
        ELSE IF ~IsHttpUrl(form_page_res.action) /\ ~form_page_res.handle
             THEN [err |-> E_ATTR, url |-> NoUrl, data |-> NoFields]
        ELSE IF validate_url /\ mso_info.login_hostname # ""
                /\ mso_info.login_hostname # post_url.host
             THEN [err |-> E_HOST, url |-> NoUrl, data |-> NoFields]
        ELSE [err |-> "",
              url |-> IF validate_url THEN [post_url EXCEPT !.scheme = "https"] ELSE post_url,
              data |-> Merge(data, form_page_res.hidden)]

\* post_form, up to the POST it issues: err, or the url and the merged form.
post_form(form_page_res, data, validate_url, mso_info) ==
    LET act == form_page_res.action
        absolute == IsHttpUrl(act)
        post_url == resolved_post_url(form_page_res)
        expected_hostname == mso_info.login_hostname
        sent_url == IF validate_url /\ post_url.scheme # "https"
                    THEN [post_url EXCEPT !.scheme = "https"] ELSE post_url
        fail(e) == [err |-> e, url |-> NoUrl, data |-> NoFields]
    IN  IF act.k = "none" THEN fail(E_REGEX)
        ELSE IF ~absolute /\ ~form_page_res.handle THEN fail(E_ATTR)
        ELSE IF validate_url /\ expected_hostname # "" /\ expected_hostname # post_url.host
             THEN fail(E_HOST)
        ELSE [err |-> "", url |-> sent_url, data |-> Merge(form_page_res.hidden, data)]

\* extract_redirect_url that returns the target as written, never joined
\* to the base
extract_redirect_url_unresolved(html, base, fatal) ==
    IF html.refresh.k = "none"
    THEN [err |-> IF fatal THEN E_REGEX ELSE "", none |-> TRUE, ref |-> NoRef]
    ELSE [err |-> "", none |-> FALSE, ref |-> html.refresh]

\* extract_redirect_url(html, url, fatal); base = NoUrl stands for url=None
extract_redirect_url(html, base, fatal) ==
    LET t == html.refresh
    IN  IF t.k = "none"
        THEN [err |-> IF fatal THEN E_REGEX ELSE "", none |-> TRUE, ref |-> NoRef]
        ELSE IF base = NoUrl THEN [err |-> "", none |-> FALSE, ref |-> t]
        ELSE [err |-> "", none |-> FALSE,
              ref |-> [k |-> "abs", url |-> [urljoin(base, t) EXCEPT !.esc = FALSE]]]

(***************************** one call *************************************)
Hidden0 == [csrf |-> "hidden-value"]
Headers0 == [ap_42 |-> "anonymous"]

XmlG1 == "<rss><guid>g1</guid></rss>"
XmlNoGuid == "<rss><title>t</title></rss>"
\* '<' in resource
IsXml(resource) == resource \in {XmlG1, XmlNoGuid}
\* resource_guid that keys by the descriptor as given, XML fragment or not
resource_guid_raw(resource) == [err |-> "", val |-> resource]

\* guid = xml_text(resource, 'guid') if '<' in resource else resource
resource_guid(resource) ==
    IF IsXml(resource) THEN search_regex(resource = XmlG1, "g1")
    ELSE [err |-> "", val |-> resource]

NewCall(requestor_id, resource, mso_id) ==
    [pc |-> "begin", pass |-> 0, outcome |-> "", result |-> "",
     requestor_id |-> requestor_id, resource |-> resource, mso_id |-> mso_id,
     guid |-> "", requestor_info |-> EmptyRecord, loaded |-> Unstored,
     authn_token |-> NoToken, authz_token |-> NoToken,
     username |-> "", password |-> "", reg_code |-> "",
     philo_code |-> "", relay_state |-> "", saml_response_json |-> NoFields,
     mvpd_headers |-> Headers0, page |-> NoPage, log |-> <<>>, logouts |-> <<>>]

Procs == DOMAIN ex
Set(p, s) == ex' = [ex EXCEPT ![p] = s]
Raise(s, e) == [s EXCEPT !.pc = "done", !.outcome = e]
Sent(s, req) == [s EXCEPT !.log = Append(@, req)]
Goto(s, pc) == [s EXCEPT !.pc = pc]
N(s) == ToString(s.pass)

\* raise_mvpd_required that lets the pass go on to the device registration
raise_mvpd_required_skipped(s) == [s EXCEPT !.pc = "device"]

\* raise_mvpd_required()
raise_mvpd_required(s) == Raise(s, E_REQUIRED)

\* Continue in a loop without a bound ('while True')
Continue_unbounded(s) == [s EXCEPT !.pass = @ + 1, !.pc = "load"]

\* 'continue' in 'for _ in range(2)': the next pass, or the end of the loop,
\* after which the function returns None.
Continue(s) ==
    IF s.pass < MaxPasses THEN [s EXCEPT !.pass = @ + 1, !.pc = "load"]
    ELSE [s EXCEPT !.pc = "done", !.outcome = FELL_THROUGH]

\* '<pendingLogout' in the response to the request kind: noted in logouts
\* (what the broker said, kept for the properties), then 'continue'
LoggedOut(s, kind) == Continue([s EXCEPT !.logouts = Append(@, [pass |-> s.pass, at |-> kind])])

\* lines 1400-1467
Begin(p) ==
    LET s == ex[p]
        g == resource_guid(s.resource)
    IN  /\ s.pc = "begin"
        /\ Set(p, IF g.err # "" THEN Raise(s, g.err)
                  ELSE [s EXCEPT !.guid = g.val, !.pass = 1, !.pc = "load"])
        /\ UNCHANGED <<cache, now, arg, ret>>

\* lines 1468-1471: the cached session token, None if absent or expired
CachedAuthn(requestor_info, t) ==
    LET tok == Get(requestor_info, AUTHN_KEY)
        e == is_expired(tok, "simpleTokenExpires", t)
    IN  IF tok = NoToken THEN [err |-> "", tok |-> NoToken]
        ELSE IF e.err # "" THEN [err |-> e.err, tok |-> NoToken]
        ELSE [err |-> "", tok |-> IF e.val THEN NoToken ELSE tok]

\* LoadCache without the check of lines 1472-1477: the pass re-authenticates
\* with whatever is configured
LoadCache_unguarded(p) ==
    LET s == ex[p]
        ri == load_requestor_info(cache, s.requestor_id)
        a == CachedAuthn(ri.data, now)
        s1 == [s EXCEPT !.requestor_info = ri.data, !.authn_token = a.tok,
                        !.loaded = cache[s.requestor_id]]
    IN  /\ s.pc = "load"
        /\ IF a.err # "" THEN Set(p, Raise(s1, a.err))
           ELSE IF a.tok # NoToken THEN Set(p, Goto(s1, "authz"))
           ELSE \E username \in {"", USER}, password \in {"", PASS} :
                    Set(p, [s1 EXCEPT !.username = username,
                                      !.password = password, !.pc = "device"])
        /\ UNCHANGED <<cache, now, arg, ret>>

\* lines 1468-1477
LoadCache(p) ==
    LET s == ex[p]
        ri == load_requestor_info(cache, s.requestor_id)
        a == CachedAuthn(ri.data, now)
        s1 == [s EXCEPT !.requestor_info = ri.data, !.authn_token = a.tok,
                        !.loaded = cache[s.requestor_id]]
    IN  /\ s.pc = "load"
        /\ IF ri.none THEN Set(p, Raise(s, E_ATTR))
           ELSE IF a.err # "" THEN Set(p, Raise(s1, a.err))
           ELSE IF a.tok # NoToken THEN Set(p, Goto(s1, "authz"))
           ELSE IF s.mso_id = "" THEN Set(p, raise_mvpd_required(s1))
           ELSE \E username \in {"", USER}, password \in {"", PASS} :
                    Set(p, IF username = "" \/ password = ""
                           THEN raise_mvpd_required(s1)
                           ELSE [s1 EXCEPT !.username = username,
                                           !.password = password, !.pc = "device"])
        /\ UNCHANGED <<cache, now, arg, ret>>

\* A JSON request to the broker: it fails in transport, or the answer lacks
\* the key the code reads from it, or it succeeds and the call goes on as ok.
JsonStep(p, at, req, ok) ==
    /\ ex[p].pc = at
    /\ \E r \in {"net", "nokey", "ok"} :
          Set(p, CASE r = "net" -> Raise(Sent(ex[p], req), E_NET)
                   [] r = "nokey" -> Raise(Sent(ex[p], req), E_KEY)
                   [] OTHER -> Sent(ok, req))
    /\ UNCHANGED <<cache, now, arg, ret>>

\* lines 1479-1487
RegisterDevice(p) ==
    LET s == ex[p]
    IN  JsonStep(p, "device",
            Req("device", s.pass, BrokerUrl("/indiv/devices"),
                [fingerprint |-> "uuid"], NoFields),
            [s EXCEPT !.pc = "client",
                      !.mvpd_headers = Merge(@, [pass_sfp |-> "sfp" \o N(s),
                                                 Ap_21 |-> "device" \o N(s)])])

\* lines 1489-1493
RegisterClient(p) ==
    LET s == ex[p]
    IN  JsonStep(p, "client",
            Req("client", s.pass, BrokerUrl("/o/client/register"),
                [software_statement |-> "statement"], NoFields),
            Goto(s, "token"))

\* lines 1495-1505
AccessToken(p) ==
    LET s == ex[p]
    IN  JsonStep(p, "token",
            Req("token", s.pass, BrokerUrl("/o/client/token"),
                [grant_type |-> "client_credentials"], NoFields),
            [s EXCEPT !.pc = "regcode",
                      !.mvpd_headers = Merge(@, [Authorization |-> "Bearer" \o N(s)])])

\* RegCode that goes on to the session request without the provider login
RegCode_then_session(p) ==
    LET s == ex[p]
    IN  JsonStep(p, "regcode",
            Req("regcode", s.pass, BrokerUrl("/reggie/v1/regcode"),
                [requestor |-> s.requestor_id, deviceId |-> s.mvpd_headers.Ap_21],
                [Authorization |-> s.mvpd_headers.Authorization]),
            [s EXCEPT !.pc = "session", !.reg_code = "code" \o N(s)])

\* lines 1507-1518
RegCode(p) ==
    LET s == ex[p]
    IN  JsonStep(p, "regcode",
            Req("regcode", s.pass, BrokerUrl("/reggie/v1/regcode"),
                [requestor |-> s.requestor_id, deviceId |-> s.mvpd_headers.Ap_21],
                [Authorization |-> s.mvpd_headers.Authorization]),
            [s EXCEPT !.pc = "redirect", !.reg_code = "code" \o N(s)])

(***************************** pages the providers serve *******************)
\* The host a provider's login pages live on.
GoodHost(mso) ==
    IF MSO_INFO(mso).login_hostname # "" THEN MSO_INFO(mso).login_hostname ELSE IdpHost

PlainPage(url, action) == Page(url, action, Hidden0, {}, NoRef)

\* Pages holding the credential form: relative action on an https or an http
\* page, no form at all, and, where the profile pins a host, an action or a
\* page on another host.
CredPages(mso) ==
    {PlainPage(Url("https", GoodHost(mso), "/login"), Rel("/auth")),
     PlainPage(Url("http", GoodHost(mso), "/login"), Rel("/auth")),
     PlainPage(Url("https", GoodHost(mso), "/login"), NoRef)}
    \cup (IF MSO_INFO(mso).login_hostname = "" THEN {}
          ELSE {PlainPage(Url("http", EvilHost, "/login"), Rel("/auth")),
                PlainPage(Url("https", GoodHost(mso), "/login"),
                          Abs("https", EvilHost, "/auth")),
                PlainPage(Url("https", GoodHost(mso), "/login"),
                          NetLoc(EvilHost, "/auth"))})

FormPages(mso) ==
    {PlainPage(Url("https", GoodHost(mso), "/page"), Rel("/next")),
     PlainPage(Url("https", GoodHost(mso), "/page"), NoRef)}

\* The form fields a credential submission adds
LoginData(s) ==
    LET info == MSO_INFO(s.mso_id)
    IN  [k \in {info.username_field, info.password_field} |->
            IF k = info.password_field THEN s.password ELSE s.username]

\* What a page request can bring back: a page, and where the call goes on.
\* Fails: the code that reads the page raises before the next request.
Out(pg, pc) == [page |-> pg, pc |-> pc, err |-> ""]
Fails(pg, e) == [page |-> pg, pc |-> "done", err |-> e]
To(pages, pc) == {Out(pg, pc) : pg \in pages}

\* PageStep that answers a transport failure by starting the next pass
PageStep_retry(p, req, outs) ==
    \/ Set(p, Continue(Sent(ex[p], req)))
    \/ \E o \in outs : Set(p, [Sent(ex[p], req) EXCEPT !.page = o.page, !.pc = o.pc,
                                                       !.outcome = o.err])

\* A page request: it fails in transport, or one of outs comes back.
PageStep(p, req, outs) ==
    \/ Set(p, Raise(Sent(ex[p], req), E_NET))
    \/ \E o \in outs : Set(p, [Sent(ex[p], req) EXCEPT !.page = o.page, !.pc = o.pc,
                                                       !.outcome = o.err])

\* A form submission by post_form: the error it raises, or the POST.
FormStep(p, kind, data, validate_url, outs) ==
    LET s == ex[p]
        f == post_form(s.page, data, validate_url, MSO_INFO(s.mso_id))
    IN  IF f.err # "" THEN Set(p, Raise(s, f.err))
        ELSE PageStep(p, Req(kind, s.pass, f.url, f.data, NoFields), outs)

(***************************** provider redirect ****************************)
IsDefault(mso) ==
    mso \notin {"Comcast_SSO", "Philo", "Verizon", "Spectrum", "Charter_Direct",
                "slingtv", "Suddenlink", "Fubo"}

Marked(pg, marks) == [pg EXCEPT !.marks = marks]
Unhandled(pg) == [pg EXCEPT !.handle = FALSE]

\* Literal markers the drivers look for in a page
AUTO_SIGNING == "automatically signing you in"
AUTO_SIGNED == "automatically signed in with"
WINDOW_LOCATION == "window.location = '...'"
CONTINUE_URL == "continue: \"https://oauth.xfinity.com/oauth/authorize?...\""
SIGNIN_FORM == "<form name=\"signin\""
REFRESH_ATTR == "http-equiv=\"refresh\""
RESUME == "<button class=\"submit\" value=\"Resume\">Resume</button>"
PLEASE_WAIT == "Please wait ..."
N_EQ_Y == "'N'== \"Y\""
FIOS_SIGNIN == "Verizon FiOS - sign in"
PARENT_LOCATION == "self.parent.location='...'"
VAR_URL == "var url = '...'"
TRY_AGAIN == "Please try again."
XMLHTTP_OPEN == "xmlHttp.open(\"POST\", '...'"

DefaultRedirectPages(mso) ==
    LET u == Url("https", GoodHost(mso), "/saml")
    IN  {PlainPage(u, Rel("/next")),
         PlainPage(u, NoRef),
         Page(u, Rel("/next"), Hidden0, {}, Rel("/hop"))}

ComcastRedirectPages ==
    LET u == Url("https", GoodHost("Comcast_SSO"), "/saml")
        plain == PlainPage(u, Rel("/next"))
    IN  {Marked(plain, {AUTO_SIGNING, WINDOW_LOCATION}),
         Marked(plain, {AUTO_SIGNING}),
         Marked(plain, {AUTO_SIGNED, CONTINUE_URL}),
         Marked(plain, {AUTO_SIGNED}),
         Marked(Page(u, NoRef, Hidden0, {}, Abs("https", GoodHost("Comcast_SSO"), "/hop")),
                {REFRESH_ATTR}),
         Marked(Page(u, NoRef, Hidden0, {}, Rel("/hop")), {REFRESH_ATTR}),
         Marked(PlainPage(u, NoRef), {REFRESH_ATTR}),
         plain,
         PlainPage(u, NoRef)}
        \cup {Marked(pg, {SIGNIN_FORM}) : pg \in CredPages("Comcast_SSO")}

VerizonRedirectPages ==
    LET u == Url("https", GoodHost("Verizon"), "/saml")
        plain == PlainPage(u, Rel("/next"))
    IN  {Marked(plain, {PLEASE_WAIT, PARENT_LOCATION}),
         Marked(plain, {PLEASE_WAIT}),
         Marked(plain, {PLEASE_WAIT, N_EQ_Y, VAR_URL}),
         Marked(plain, {VAR_URL}),
         plain}
        \cup {Marked(pg, {FIOS_SIGNIN}) : pg \in CredPages("Verizon")}
        \cup {Marked(pg, {PLEASE_WAIT, N_EQ_Y, FIOS_SIGNIN}) : pg \in CredPages("Verizon")}

\* What the broker's authenticate/saml endpoint leads to, per provider.
RedirectPages(mso) ==
    CASE mso = "Comcast_SSO" -> ComcastRedirectPages
      [] mso = "Verizon" -> VerizonRedirectPages
      [] OTHER -> DefaultRedirectPages(mso)

\* lines 1520-1530
ProviderRedirect(p) ==
    LET s == ex[p]
    IN  /\ s.pc = "redirect"
        /\ PageStep(p, Req("redirect", s.pass, BrokerUrl("/adobe-services/authenticate/saml"),
                           [mso_id |-> s.mso_id, requestor_id |-> s.requestor_id,
                            reg_code |-> s.reg_code], NoFields),
                    To(RedirectPages(s.mso_id), "login"))
        /\ UNCHANGED <<cache, now, arg, ret>>

(***************************** default driver, lines 1798-1819 *************)
\* lines 1801-1807: the meta-refresh hop, taken when the page has one
DefaultRefresh(p) ==
    LET s == ex[p]
        r == extract_redirect_url(s.page, s.page.url, FALSE)
    IN  /\ s.pc = "login" /\ IsDefault(s.mso_id)
        /\ ~r.none
        /\ PageStep(p, Req("redirect_refresh", s.pass, r.ref.url, NoFields, NoFields),
                    To({PlainPage(r.ref.url, Rel("/next"))}, "df_form"))
        /\ UNCHANGED <<cache, now, arg, ret>>

\* lines 1808-1809
DefaultLoginPage(p) ==
    LET s == ex[p]
    IN  /\ IsDefault(s.mso_id)
        /\ \/ s.pc = "df_form"
           \/ s.pc = "login" /\ extract_redirect_url(s.page, s.page.url, FALSE).none
        /\ FormStep(p, "login_page", NoFields, FALSE, To(CredPages(s.mso_id), "df_login"))
        /\ UNCHANGED <<cache, now, arg, ret>>

\* DefaultLogin that goes on to the confirmation for every provider
DefaultLogin_always_confirm(p) ==
    LET s == ex[p]
        form_data == IF s.mso_id \in {"Cablevision", "AlticeOne"}
                     THEN Merge(LoginData(s), [_eventId_proceed |-> ""])
                     ELSE LoginData(s)
    IN  /\ s.pc = "df_login"
        /\ FormStep(p, "logging_in", form_data, TRUE, To(FormPages(s.mso_id), "df_confirm"))
        /\ UNCHANGED <<cache, now, arg, ret>>

\* lines 1810-1817
DefaultLogin(p) ==
    LET s == ex[p]
        form_data == IF s.mso_id \in {"Cablevision", "AlticeOne"}
                     THEN Merge(LoginData(s), [_eventId_proceed |-> ""])
                     ELSE LoginData(s)
    IN  /\ s.pc = "df_login"
        /\ FormStep(p, "logging_in", form_data, TRUE,
                    To(FormPages(s.mso_id),
                       IF s.mso_id # "Rogers" THEN "df_confirm" ELSE "session"))
        /\ UNCHANGED <<cache, now, arg, ret>>

\* lines 1818-1819
DefaultConfirm(p) ==
    LET s == ex[p]
    IN  /\ s.pc = "df_confirm"
        /\ FormStep(p, "confirm", NoFields, FALSE, To({NoPage}, "session"))
        /\ UNCHANGED <<cache, now, arg, ret>>

(***************************** Comcast_SSO, lines 1532-1570 ****************)
IsComcast(s) == s.pc = "login" /\ s.mso_id = "Comcast_SSO"
ComcastAutoLogin(s) == AUTO_SIGNING \in s.page.marks \/ AUTO_SIGNED \in s.page.marks

\* lines 1536-1548: the provider signed the user in by network origin
ComcastAuto(p) ==
    LET s == ex[p]
        oauth_redirect_url ==
            IF AUTO_SIGNING \in s.page.marks
            THEN search_regex(WINDOW_LOCATION \in s.page.marks,
                              Url("https", "oauth.xfinity.com", "/window"))
            ELSE search_regex(CONTINUE_URL \in s.page.marks,
                              Url("https", "oauth.xfinity.com", "/oauth/authorize"))
    IN  /\ IsComcast(s) /\ ComcastAutoLogin(s)
        /\ IF oauth_redirect_url.err # "" THEN Set(p, Raise(s, oauth_redirect_url.err))
           ELSE PageStep(p, Req("confirm_auto_login", s.pass, oauth_redirect_url.val,
                                NoFields, NoFields),
                         To({NoPage}, "session"))
        /\ UNCHANGED <<cache, now, arg, ret>>

\* lines 1552-1557
ComcastRefresh(p) ==
    LET s == ex[p]
        r == extract_redirect_url(s.page, NoUrl, TRUE)
    IN  /\ IsComcast(s) /\ ~ComcastAutoLogin(s)
        /\ SIGNIN_FORM \notin s.page.marks /\ REFRESH_ATTR \in s.page.marks
        /\ IF r.err # "" THEN Set(p, Raise(s, r.err))
           ELSE IF r.ref.k # "abs" THEN Set(p, Raise(s, E_URL))
           ELSE PageStep(p, Req("login_page", s.pass, r.ref.url, NoFields, NoFields),
                         To(CredPages(s.mso_id), "cc_login"))
        /\ UNCHANGED <<cache, now, arg, ret>>

\* lines 1558-1561
ComcastLoginPage(p) ==
    LET s == ex[p]
    IN  /\ IsComcast(s) /\ ~ComcastAutoLogin(s)
        /\ SIGNIN_FORM \notin s.page.marks /\ REFRESH_ATTR \notin s.page.marks
        /\ FormStep(p, "login_page", NoFields, FALSE, To(CredPages(s.mso_id), "cc_login"))
        /\ UNCHANGED <<cache, now, arg, ret>>

\* ComcastLogin that submits the credentials without validating the url
ComcastLogin_unvalidated(p) ==
    LET s == ex[p]
        confirm == PlainPage(Url("https", GoodHost(s.mso_id), "/confirm"), Rel("/resume"))
    IN  /\ \/ s.pc = "cc_login"
           \/ IsComcast(s) /\ ~ComcastAutoLogin(s) /\ SIGNIN_FORM \in s.page.marks
        /\ FormStep(p, "logging_in", LoginData(s), FALSE,
                    {Out(Marked(confirm, {RESUME}), "cc_confirm"),
                     Out(Marked([confirm EXCEPT !.action = NoRef], {RESUME}), "cc_confirm"),
                     Out(confirm, "session")})
        /\ UNCHANGED <<cache, now, arg, ret>>

\* lines 1563-1569
ComcastLogin(p) ==
    LET s == ex[p]
        confirm == PlainPage(Url("https", GoodHost(s.mso_id), "/confirm"), Rel("/resume"))
    IN  /\ \/ s.pc = "cc_login"
           \/ IsComcast(s) /\ ~ComcastAutoLogin(s) /\ SIGNIN_FORM \in s.page.marks
        /\ FormStep(p, "logging_in", LoginData(s), TRUE,
                    {Out(Marked(confirm, {RESUME}), "cc_confirm"),
                     Out(Marked([confirm EXCEPT !.action = NoRef], {RESUME}), "cc_confirm"),
                     Out(confirm, "session")})
        /\ UNCHANGED <<cache, now, arg, ret>>

\* line 1570
ComcastConfirm(p) ==
    LET s == ex[p]
    IN  /\ s.pc = "cc_confirm"
        /\ FormStep(p, "confirm", NoFields, FALSE, To({NoPage}, "session"))
        /\ UNCHANGED <<cache, now, arg, ret>>

(***************************** Verizon, lines 1598-1655 ********************)
IsVerizon(s) == s.pc = "login" /\ s.mso_id = "Verizon"
VerizonWait(s) == PLEASE_WAIT \in s.page.marks /\ N_EQ_Y \notin s.page.marks

\* The page that carries the SAML login call, with or without the marker of
\* rejected credentials
SamlLoginPages ==
    {Marked(NoPage, {XMLHTTP_OPEN}), Marked(NoPage, {}),
     Marked(NoPage, {TRY_AGAIN, XMLHTTP_OPEN})}

\* The login page of the third branch: fetched by _download_webpage, handed
\* to post_form with the url string in place of the response handle
VerizonLoginPages ==
    LET u == Url("https", GoodHost("Verizon"), "/sso")
    IN  {Unhandled(PlainPage(u, a)) :
            a \in {Rel("/auth"), NoRef,
                   Abs("https", GoodHost("Verizon"), "/auth"),
                   Abs("http", GoodHost("Verizon"), "/auth"),
                   Abs("https", EvilHost, "/auth")}}

\* lines 1603-1610 and 1622-1633: the SAML login page is fetched from the
\* url a script of the redirect page names
VerizonSamlPage(p) ==
    LET s == ex[p]
        saml_redirect_url ==
            search_regex((IF VerizonWait(s) THEN PARENT_LOCATION ELSE VAR_URL) \in s.page.marks,
                         Url("https", GoodHost("Verizon"), "/sso"))
    IN  /\ IsVerizon(s)
        /\ VerizonWait(s) \/ FIOS_SIGNIN \notin s.page.marks
        /\ IF saml_redirect_url.err # "" THEN Set(p, Raise(s, saml_redirect_url.err))
           ELSE PageStep(p, Req("saml_login_page", s.pass, saml_redirect_url.val,
                                NoFields, NoFields),
                         IF VerizonWait(s) THEN To(SamlLoginPages, "vz_saml")
                         ELSE To(VerizonLoginPages, "vz_login"))
        /\ UNCHANGED <<cache, now, arg, ret>>

\* VerizonAfterLogin that does not look for 'Please try again.'
VerizonAfterLogin_unchecked == {Out(pg, "vz_saml") : pg \in SamlLoginPages}

\* lines 1618-1621 and 1639-1641: 'Please try again.' in the page after the
\* credential submission raises
VerizonAfterLogin ==
    {IF TRY_AGAIN \in pg.marks THEN Fails(pg, E_CREDS) ELSE Out(pg, "vz_saml") :
        pg \in SamlLoginPages}

\* lines 1611-1621 and 1634-1641
VerizonLogin(p) ==
    LET s == ex[p]
    IN  /\ \/ s.pc = "vz_login"
           \/ IsVerizon(s) /\ ~VerizonWait(s) /\ FIOS_SIGNIN \in s.page.marks
        /\ FormStep(p, "logging_in", LoginData(s), TRUE, VerizonAfterLogin)
        /\ UNCHANGED <<cache, now, arg, ret>>

\* lines 1642-1647
VerizonSamlResponse(p) ==
    LET s == ex[p]
        saml_login_url == search_regex(XMLHTTP_OPEN \in s.page.marks,
                                       Url("https", GoodHost("Verizon"), "/saml/login"))
    IN  /\ s.pc = "vz_saml"
        /\ IF saml_login_url.err # "" THEN Set(p, Raise(s, saml_login_url.err))
           ELSE PageStep(p, Req("saml_response", s.pass, saml_login_url.val,
                                NoFields, NoFields),
                         {Out(NoPage, "vz_confirm"), Fails(NoPage, E_KEY)})
        /\ UNCHANGED <<cache, now, arg, ret>>

\* lines 1648-1655
VerizonConfirm(p) ==
    LET s == ex[p]
    IN  /\ s.pc = "vz_confirm"
        /\ PageStep(p, Req("confirm", s.pass, Url("https", BrokerHost, "/target"),
                           [SAMLResponse |-> "saml-response", RelayState |-> "relay-state"],
                           NoFields),
                    To({NoPage}, "session"))
        /\ UNCHANGED <<cache, now, arg, ret>>

(***************************** slingtv, lines 1691-1724 ********************)
\* hidden_data = self._hidden_inputs(page); hidden_data['history'] = n
Bookend(pg, n) == Merge(pg.hidden, [history |-> n])

\* lines 1696-1703
SlingFirstBookend(p) ==
    LET s == ex[p]
    IN  /\ s.pc = "login" /\ s.mso_id = "slingtv"
        /\ PageStep(p, Req("first_bookend", s.pass, s.page.url, Bookend(s.page, "1"), NoFields),
                    To(CredPages(s.mso_id), "sl_login"))
        /\ UNCHANGED <<cache, now, arg, ret>>

\* The page after the credential submission, with or without a meta refresh
SlingAssociationPages(mso) ==
    LET u == Url("https", GoodHost(mso), "/association")
    IN  {Page(u, NoRef, Hidden0, {}, Rel("/refresh")), PlainPage(u, NoRef)}

\* lines 1705-1709
SlingLogin(p) ==
    LET s == ex[p]
    IN  /\ s.pc = "sl_login"
        /\ FormStep(p, "logging_in", LoginData(s), TRUE,
                    To(SlingAssociationPages(s.mso_id), "sl_redirect"))
        /\ UNCHANGED <<cache, now, arg, ret>>

\* SlingAssociation that goes on to the confirmation without the final bookend
SlingAssociation_then_confirm(p) ==
    LET s == ex[p]
        r == extract_redirect_url(s.page, s.page.url, FALSE)
    IN  /\ s.pc = "sl_redirect"
        /\ IF r.none THEN Set(p, Raise(s, E_URL))
           ELSE PageStep(p, Req("association_redirect", s.pass, r.ref.url, NoFields, NoFields),
                         To({PlainPage(r.ref.url, Rel("/next"))}, "sl_confirm"))
        /\ UNCHANGED <<cache, now, arg, ret>>

\* lines 1711-1716
SlingAssociation(p) ==
    LET s == ex[p]
        r == extract_redirect_url(s.page, s.page.url, FALSE)
    IN  /\ s.pc = "sl_redirect"
        /\ IF r.none THEN Set(p, Raise(s, E_URL))
           ELSE PageStep(p, Req("association_redirect", s.pass, r.ref.url, NoFields, NoFields),
                         To({PlainPage(r.ref.url, NoRef)}, "sl_last"))
        /\ UNCHANGED <<cache, now, arg, ret>>

\* lines 1717-1722
SlingFinalBookend(p) ==
    LET s == ex[p]
    IN  /\ s.pc = "sl_last"
        /\ PageStep(p, Req("final_bookend", s.pass, s.page.url, Bookend(s.page, "3"), NoFields),
                    To(FormPages(s.mso_id), "sl_confirm"))
        /\ UNCHANGED <<cache, now, arg, ret>>

\* line 1724
SlingConfirm(p) ==
    LET s == ex[p]
    IN  /\ s.pc = "sl_confirm"
        /\ FormStep(p, "confirm", NoFields, FALSE, To({NoPage}, "session"))
        /\ UNCHANGED <<cache, now, arg, ret>>

(***************************** Suddenlink, lines 1725-1776 ******************)
PASSWORD_INPUT == "id=\"password\" type=\"password\" name=\"password\""
AJAX_URL == "url: '...'"

\* hidden_data of lines 1731-1732, as the first bookend sent it
SuddenlinkHidden(s) ==
    LET First(r) == r.pass = s.pass /\ r.kind = "first_bookend"
    IN  SelectSeq(s.log, First)[1].data

\* lines 1728-1729
SuddenlinkContinue(p) ==
    LET s == ex[p]
    IN  /\ s.pc = "login" /\ s.mso_id = "Suddenlink"
        /\ FormStep(p, "pressing_continue", NoFields, FALSE, To(FormPages(s.mso_id), "su_first"))
        /\ UNCHANGED <<cache, now, arg, ret>>

\* lines 1731-1743: the first bookend brings the login prompt, or a page
\* that names (or fails to name) the ajaxurl
SuddenlinkFirstBookend(p) ==
    LET s == ex[p]
        u == Url("https", GoodHost(s.mso_id), "/bookend")
    IN  /\ s.pc = "su_first"
        /\ PageStep(p, Req("first_bookend", s.pass, s.page.url,
                           Merge(s.page.hidden, [history_val |-> "1"]), NoFields),
                    {Out(Marked(pg, {PASSWORD_INPUT}), "su_login") : pg \in CredPages(s.mso_id)}
                    \cup To({Marked(PlainPage(u, NoRef), {AJAX_URL}), PlainPage(u, NoRef)},
                            "su_tryauth"))
        /\ UNCHANGED <<cache, now, arg, ret>>

\* lines 1745-1749
SuddenlinkTryAuth(p) ==
    LET s == ex[p]
        provider_tryauth_url ==
            search_regex(AJAX_URL \in s.page.marks, Url("https", GoodHost(s.mso_id), "/tryauth"))
    IN  /\ s.pc = "su_tryauth"
        /\ IF provider_tryauth_url.err # "" THEN Set(p, Raise(s, provider_tryauth_url.err))
           ELSE PageStep(p, Req("tryauth", s.pass, provider_tryauth_url.val,
                                SuddenlinkHidden(s), NoFields),
                         To({NoPage}, "su_page"))
        /\ UNCHANGED <<cache, now, arg, ret>>

\* lines 1751-1754
SuddenlinkLoginPage(p) ==
    LET s == ex[p]
    IN  /\ s.pc = "su_page"
        /\ PageStep(p, Req("login_page", s.pass,
                           Url("https", "authorize.suddenlink.net",
                               "/saml/module.php/authSynacor/login.php"),
                           SuddenlinkHidden(s), NoFields),
                    To(CredPages(s.mso_id), "su_login"))
        /\ UNCHANGED <<cache, now, arg, ret>>

\* lines 1756-1760
SuddenlinkLogin(p) ==
    LET s == ex[p]
    IN  /\ s.pc = "su_login"
        /\ FormStep(p, "logging_in", LoginData(s), TRUE,
                    To(SlingAssociationPages(s.mso_id), "su_redirect"))
        /\ UNCHANGED <<cache, now, arg, ret>>

\* lines 1762-1767
SuddenlinkAssociation(p) ==
    LET s == ex[p]
        r == extract_redirect_url(s.page, s.page.url, FALSE)
    IN  /\ s.pc = "su_redirect"
        /\ IF r.none THEN Set(p, Raise(s, E_URL))
           ELSE PageStep(p, Req("association_redirect", s.pass, r.ref.url, NoFields, NoFields),
                         To({PlainPage(r.ref.url, NoRef)}, "su_last"))
        /\ UNCHANGED <<cache, now, arg, ret>>

\* lines 1769-1774
SuddenlinkFinalBookend(p) ==
    LET s == ex[p]
    IN  /\ s.pc = "su_last"
        /\ PageStep(p, Req("final_bookend", s.pass, s.page.url,
                           Merge(s.page.hidden, [history_val |-> "3"]), NoFields),
                    To(FormPages(s.mso_id), "su_confirm"))
        /\ UNCHANGED <<cache, now, arg, ret>>

\* line 1776
SuddenlinkConfirm(p) ==
    LET s == ex[p]
    IN  /\ s.pc = "su_confirm"
        /\ FormStep(p, "confirm", NoFields, FALSE, To({NoPage}, "session"))
        /\ UNCHANGED <<cache, now, arg, ret>>

(***************************** Philo, lines 1571-1597 ***********************)
PhiloHost == "idp.philo.com"
\* What the user can type at the prompt
PhiloCodes == {"123456", ""}

\* PhiloRequestCode that goes on to the submission without prompting
PhiloRequestCode_no_prompt(p) ==
    LET s == ex[p]
    IN  /\ s.pc = "login" /\ s.mso_id = "Philo"
        /\ PageStep(p, Req("philo_code_request", s.pass,
                           Url("https", PhiloHost, "/auth/init/login_code"),
                           [ident |-> s.username, device |-> "web"], NoFields),
                    To({NoPage}, "ph_submit") \cup To({NoPage}, "ph_prompt"))
        /\ UNCHANGED <<cache, now, arg, ret>>

\* lines 1573-1585
PhiloRequestCode(p) ==
    LET s == ex[p]
    IN  /\ s.pc = "login" /\ s.mso_id = "Philo"
        /\ PageStep(p, Req("philo_code_request", s.pass,
                           Url("https", PhiloHost, "/auth/init/login_code"),
                           [ident |-> s.username, device |-> "web",
                            send_confirm_link |-> "false", send_token |-> "true",
                            device_ident |-> "web-uuid" \o N(s),
                            include_login_link |-> "true"],
                           NoFields),
                    To({NoPage}, "ph_prompt"))
        /\ UNCHANGED <<cache, now, arg, ret>>

\* line 1587: getpass.getpass returns what the user typed
PhiloPrompt(p) ==
    LET s == ex[p]
    IN  /\ s.pc = "ph_prompt"
        /\ \E code \in PhiloCodes : Set(p, [s EXCEPT !.philo_code = code, !.pc = "ph_submit"])
        /\ UNCHANGED <<cache, now, arg, ret>>

\* lines 1588-1594
PhiloSubmitCode(p) ==
    LET s == ex[p]
    IN  /\ s.pc = "ph_submit"
        /\ PageStep(p, Req("philo_code_submit", s.pass,
                           Url("https", PhiloHost, "/auth/update/login_code"),
                           [token |-> s.philo_code], NoFields),
                    To({NoPage}, "ph_page"))
        /\ UNCHANGED <<cache, now, arg, ret>>

\* line 1596
PhiloConfirmPage(p) ==
    LET s == ex[p]
    IN  /\ s.pc = "ph_page"
        /\ PageStep(p, Req("philo_confirm_page", s.pass, Url("https", PhiloHost, "/idp/submit"),
                           NoFields, NoFields),
                    To({PlainPage(Url("https", PhiloHost, "/idp/submit"), Rel("/next")),
                        PlainPage(Url("https", PhiloHost, "/idp/submit"), NoRef)},
                       "ph_confirm"))
        /\ UNCHANGED <<cache, now, arg, ret>>

\* line 1597
PhiloConfirm(p) ==
    LET s == ex[p]
    IN  /\ s.pc = "ph_confirm"
        /\ FormStep(p, "confirm", NoFields, FALSE, To({NoPage}, "session"))
        /\ UNCHANGED <<cache, now, arg, ret>>

(***************************** Spectrum, lines 1656-1690 ********************)
\* Script literals of the login page
RELAY_STATE == "RelayState = \"...\";"
SAML_REQUEST == "SAMLRequest = \"...\";"
ManualAuthUrl == Url("https", "tveauthn.spectrum.net", "/tveauthentication/api/v1/manualAuth")

\* What the authentication API can answer: the RelayState it was sent or
\* another one, one of two redirect targets, or a document without the
\* SAMLResponse member.
ManualAuthAnswers(relay_state) ==
    {[SAMLRedirectUri |-> Url("https", h, "/saml/acs"), SAMLResponse |-> "saml-response",
      RelayState |-> r] : h \in {BrokerHost, IdpHost}, r \in {relay_state, "relay-of-api"}}
    \cup {[SAMLRedirectUri |-> Url("https", BrokerHost, "/saml/acs")]}

\* lines 1660-1661
SpectrumLoginPage(p) ==
    LET s == ex[p]
        u == Url("https", GoodHost(s.mso_id), "/login")
    IN  /\ s.pc = "login" /\ s.mso_id \in {"Spectrum", "Charter_Direct"}
        /\ FormStep(p, "login_page", NoFields, FALSE,
                    To({Marked(PlainPage(u, NoRef), {RELAY_STATE, SAML_REQUEST}),
                        Marked(PlainPage(u, NoRef), {RELAY_STATE}),
                        PlainPage(u, NoRef)}, "sp_auth"))
        /\ UNCHANGED <<cache, now, arg, ret>>

\* lines 1662-1682
SpectrumManualAuth(p) ==
    LET s == ex[p]
        relay_state == search_regex(RELAY_STATE \in s.page.marks, "relay-of-page" \o N(s))
        saml_request == search_regex(SAML_REQUEST \in s.page.marks, "saml-request" \o N(s))
        login_json == Merge(LoginData(s), [RelayState |-> relay_state.val,
                                           SAMLRequest |-> saml_request.val])
        req == Req("manual_auth", s.pass, ManualAuthUrl, login_json, NoFields)
    IN  /\ s.pc = "sp_auth"
        /\ IF relay_state.err # "" THEN Set(p, Raise(s, relay_state.err))
           ELSE IF saml_request.err # "" THEN Set(p, Raise(s, saml_request.err))
           ELSE \/ Set(p, Raise(Sent(s, req), E_NET))
                \/ \E json \in ManualAuthAnswers(relay_state.val) :
                      Set(p, [Sent(s, req) EXCEPT !.relay_state = relay_state.val,
                                                  !.saml_response_json = json,
                                                  !.pc = "sp_confirm"])
        /\ UNCHANGED <<cache, now, arg, ret>>

\* lines 1683-1690
SpectrumConfirm(p) ==
    LET s == ex[p]
        saml_response_json == s.saml_response_json
    IN  /\ s.pc = "sp_confirm"
        /\ IF "SAMLResponse" \notin DOMAIN saml_response_json THEN Set(p, Raise(s, E_KEY))
           ELSE PageStep(p, Req("confirm", s.pass, saml_response_json.SAMLRedirectUri,
                                [SAMLResponse |-> saml_response_json.SAMLResponse,
                                 RelayState |-> s.relay_state],
                                NoFields),
                         To({NoPage}, "session"))
        /\ UNCHANGED <<cache, now, arg, ret>>

(***************************** broker responses *****************************)
\* A broker response body: the markers the code looks for, and the token
\* element it carries (HTML-escaped), if any.
Body(logout, error, details, tok) ==
    [logout |-> logout, error |-> error, details |-> details, tok |-> tok]

AuthnFresh(n) == Token("authn" \o n, Future, Absent, TRUE)
AuthzFresh(n) == Token("authz" \o n, Absent, Future, TRUE)

SessionBodies(s) ==
    {Body(TRUE, FALSE, FALSE, NoToken),
     Body(FALSE, FALSE, FALSE, NoToken),
     Body(FALSE, FALSE, FALSE, Escaped(AuthnFresh(N(s)))),
     Body(FALSE, FALSE, FALSE, Escaped(Token("authn" \o N(s), Future, Absent, FALSE)))}
    \cup (IF s.guid # AUTHN_KEY THEN {}
          ELSE {Body(FALSE, FALSE, FALSE,
                     Escaped(Token("authn" \o N(s), Future, Date(StartTime), TRUE)))})

AuthorizeBodies(s) ==
    {Body(TRUE, FALSE, FALSE, NoToken),
     Body(TRUE, TRUE, TRUE, NoToken),
     Body(FALSE, TRUE, TRUE, NoToken),
     Body(FALSE, TRUE, FALSE, NoToken),
     Body(FALSE, FALSE, FALSE, NoToken),
     Body(FALSE, FALSE, FALSE, Escaped(AuthzFresh(N(s))))}

\* xml_text(body, 'authnToken' / 'authzToken')
body_token(body) == search_regex(body.tok # NoToken, body.tok)

\* SessionFailure that takes every 401 for a missing provider
SessionFailure_any_401(s, status) ==
    IF status = "401" THEN raise_mvpd_required(s) ELSE Raise(s, E_NET)

\* lines 1829-1832: the failure of the session request
SessionFailure(s, status) ==
    IF s.mso_id = "" /\ status = "401" THEN raise_mvpd_required(s) ELSE Raise(s, E_NET)

\* AfterSession that goes to the next pass without clearing the cache
AfterSession_no_clear(s, body) ==
    LET x == body_token(body)
        authn_token == unescapeHTML(x.val)
        requestor_info == Put(s.requestor_info, AUTHN_KEY, authn_token)
    IN  IF body.logout
        THEN [st |-> LoggedOut(s, "session"), store |-> FALSE, rec |-> EmptyRecord]
        ELSE IF x.err # "" THEN [st |-> Raise(s, x.err), store |-> FALSE, rec |-> EmptyRecord]
        ELSE [st |-> [s EXCEPT !.authn_token = authn_token,
                               !.requestor_info = requestor_info, !.pc = "authz"],
              store |-> TRUE, rec |-> requestor_info]

\* AfterSession that stores a record holding the new session token alone
AfterSession_fresh_record(s, body) ==
    LET x == body_token(body)
        authn_token == unescapeHTML(x.val)
        requestor_info == Put(EmptyRecord, AUTHN_KEY, authn_token)
    IN  IF body.logout
        THEN [st |-> LoggedOut(s, "session"), store |-> TRUE, rec |-> EmptyRecord]
        ELSE IF x.err # "" THEN [st |-> Raise(s, x.err), store |-> FALSE, rec |-> EmptyRecord]
        ELSE [st |-> [s EXCEPT !.authn_token = authn_token,
                               !.requestor_info = requestor_info, !.pc = "authz"],
              store |-> TRUE, rec |-> requestor_info]

\* AfterSession that writes the cache before it reads the token field
AfterSession_store_first(s, body) ==
    LET x == body_token(body)
        authn_token == unescapeHTML(x.val)
        requestor_info == Put(s.requestor_info, AUTHN_KEY, authn_token)
    IN  IF body.logout
        THEN [st |-> LoggedOut(s, "session"), store |-> TRUE, rec |-> EmptyRecord]
        ELSE IF x.err # "" THEN [st |-> Raise(s, x.err), store |-> TRUE, rec |-> EmptyRecord]
        ELSE [st |-> [s EXCEPT !.authn_token = authn_token,
                               !.requestor_info = requestor_info, !.pc = "authz"],
              store |-> TRUE, rec |-> requestor_info]

\* lines 1833-1838; .st is the call afterwards, .store whether the cache is
\* written and .rec with what
AfterSession(s, body) ==
    LET x == body_token(body)
        authn_token == unescapeHTML(x.val)
        requestor_info == Put(s.requestor_info, AUTHN_KEY, authn_token)
    IN  IF body.logout
        THEN [st |-> LoggedOut(s, "session"), store |-> TRUE, rec |-> EmptyRecord]
        ELSE IF x.err # "" THEN [st |-> Raise(s, x.err), store |-> FALSE, rec |-> EmptyRecord]
        ELSE [st |-> [s EXCEPT !.authn_token = authn_token,
                               !.requestor_info = requestor_info, !.pc = "authz"],
              store |-> TRUE, rec |-> requestor_info]

Apply(p, r) ==
    /\ Set(p, r.st)
    /\ cache' = IF r.store THEN cache_store(cache, ex[p].requestor_id, r.rec) ELSE cache

\* lines 1821-1838
RetrieveSession(p) ==
    LET s == ex[p]
        s1 == Sent(s, Req("session", s.pass, BrokerUrl("/adobe-services/session"),
                          [requestor_id |-> s.requestor_id, reg_code |-> s.reg_code],
                          s.mvpd_headers))
    IN  /\ s.pc = "session"
        /\ \/ \E status \in {"401", "500"} :
                 Set(p, SessionFailure(s1, status)) /\ UNCHANGED cache
           \/ \E body \in SessionBodies(s) : Apply(p, AfterSession(s1, body))
        /\ UNCHANGED <<now, arg, ret>>

\* CachedAuthz that never finds a token
CachedAuthz_ignored(requestor_info, guid, t) == [err |-> "", tok |-> NoToken]

\* lines 1840-1842: the cached authorization token, None if absent or expired
CachedAuthz(requestor_info, guid, t) ==
    LET tok == Get(requestor_info, guid)
        e == is_expired(tok, "simpleTokenTTL", t)
    IN  IF tok = NoToken THEN [err |-> "", tok |-> NoToken]
        ELSE IF e.err # "" THEN [err |-> e.err, tok |-> NoToken]
        ELSE [err |-> "", tok |-> IF e.val THEN NoToken ELSE tok]

\* lines 1840-1843
CheckAuthz(p) ==
    LET s == ex[p]
        z == CachedAuthz(s.requestor_info, s.guid, now)
    IN  /\ s.pc = "authz"
        /\ Set(p, IF z.err # "" THEN Raise(s, z.err)
                  ELSE [s EXCEPT !.authz_token = z.tok,
                                 !.pc = IF z.tok = NoToken THEN "authorize" ELSE "short"])
        /\ UNCHANGED <<cache, now, arg, ret>>

\* AfterAuthorize that stores a record built afresh from the tokens of the
\* call in place of the loaded record with the new entry
AfterAuthorize_fresh_record(s, body) ==
    LET x == body_token(body)
        authz_token == unescapeHTML(x.val)
        requestor_info == Put(Put(EmptyRecord, AUTHN_KEY, s.authn_token), s.guid, authz_token)
    IN  IF body.logout
        THEN [st |-> LoggedOut(s, "authorize"), store |-> TRUE, rec |-> EmptyRecord]
        ELSE IF body.error
             THEN [st |-> Raise(s, IF body.details THEN E_BROKER ELSE E_REGEX),
                   store |-> FALSE, rec |-> EmptyRecord]
        ELSE IF x.err # "" THEN [st |-> Raise(s, x.err), store |-> FALSE, rec |-> EmptyRecord]
        ELSE [st |-> [s EXCEPT !.authz_token = authz_token,
                               !.requestor_info = requestor_info, !.pc = "short"],
              store |-> TRUE, rec |-> requestor_info]

\* AfterAuthorize without the '<error' check
AfterAuthorize_no_error_check(s, body) ==
    LET x == body_token(body)
        authz_token == unescapeHTML(x.val)
        requestor_info == Put(s.requestor_info, s.guid, authz_token)
    IN  IF body.logout
        THEN [st |-> LoggedOut(s, "authorize"), store |-> TRUE, rec |-> EmptyRecord]
        ELSE IF x.err # "" THEN [st |-> Raise(s, x.err), store |-> FALSE, rec |-> EmptyRecord]
        ELSE [st |-> [s EXCEPT !.authz_token = authz_token,
                               !.requestor_info = requestor_info, !.pc = "short"],
              store |-> TRUE, rec |-> requestor_info]

\* lines 1853-1860
AfterAuthorize(s, body) ==
    LET x == body_token(body)
        authz_token == unescapeHTML(x.val)
        requestor_info == Put(s.requestor_info, s.guid, authz_token)
    IN  IF body.logout
        THEN [st |-> LoggedOut(s, "authorize"), store |-> TRUE, rec |-> EmptyRecord]
        ELSE IF body.error
             THEN [st |-> Raise(s, IF body.details THEN E_BROKER ELSE E_REGEX),
                   store |-> FALSE, rec |-> EmptyRecord]
        ELSE IF x.err # "" THEN [st |-> Raise(s, x.err), store |-> FALSE, rec |-> EmptyRecord]
        ELSE [st |-> [s EXCEPT !.authz_token = authz_token,
                               !.requestor_info = requestor_info, !.pc = "short"],
              store |-> TRUE, rec |-> requestor_info]

\* lines 1844-1860
Authorize(p) ==
    LET s == ex[p]
        mso == xml_text(s.authn_token, "simpleTokenMsoID")
        s1 == Sent(s, Req("authorize", s.pass, BrokerUrl("/adobe-services/authorize"),
                          [resource_id |-> s.resource, requestor_id |-> s.requestor_id,
                           authentication_token |-> s.authn_token.id],
                          s.mvpd_headers))
    IN  /\ s.pc = "authorize"
        /\ IF mso.err # "" THEN Set(p, Raise(s, mso.err)) /\ UNCHANGED cache
           ELSE \/ Set(p, Raise(s1, E_NET)) /\ UNCHANGED cache
                \/ \E body \in AuthorizeBodies(s) : Apply(p, AfterAuthorize(s1, body))
        /\ UNCHANGED <<now, arg, ret>>

\* AfterShortAuthorize that also keeps the media token in the cached record
AfterShortAuthorize_cached(s, logout, short_authorize) ==
    IF logout THEN [st |-> LoggedOut(s, "shortAuthorize"), store |-> TRUE, rec |-> EmptyRecord]
    ELSE [st |-> [s EXCEPT !.pc = "done", !.outcome = RETURNED, !.result = short_authorize],
          store |-> TRUE,
          rec |-> Put(s.requestor_info, "media_token", Token(short_authorize, Absent, Absent, TRUE))]

\* AfterShortAuthorize that goes to the next pass without clearing the cache
AfterShortAuthorize_no_clear(s, logout, short_authorize) ==
    IF logout THEN [st |-> LoggedOut(s, "shortAuthorize"), store |-> FALSE, rec |-> EmptyRecord]
    ELSE [st |-> [s EXCEPT !.pc = "done", !.outcome = RETURNED, !.result = short_authorize],
          store |-> FALSE, rec |-> EmptyRecord]

\* lines 1875-1878
AfterShortAuthorize(s, logout, short_authorize) ==
    IF logout THEN [st |-> LoggedOut(s, "shortAuthorize"), store |-> TRUE, rec |-> EmptyRecord]
    ELSE [st |-> [s EXCEPT !.pc = "done", !.outcome = RETURNED, !.result = short_authorize],
          store |-> FALSE, rec |-> EmptyRecord]

\* lines 1862-1878
ShortAuthorize(p) ==
    LET s == ex[p]
        id == xml_text(s.authn_token, "simpleSamlNameID")
        hs == [s EXCEPT !.mvpd_headers = Merge(@, [ap_19 |-> s.authn_token.id,
                                                   ap_23 |-> s.authn_token.id])]
        s1 == Sent(hs, Req("shortAuthorize", s.pass,
                           BrokerUrl("/adobe-services/shortAuthorize"),
                           [authz_token |-> s.authz_token.id,
                            requestor_id |-> s.requestor_id,
                            session_guid |-> s.authn_token.id],
                           hs.mvpd_headers))
    IN  /\ s.pc = "short"
        /\ IF id.err # "" THEN Set(p, Raise(s, id.err)) /\ UNCHANGED cache
           ELSE \/ Set(p, Raise(s1, E_NET)) /\ UNCHANGED cache
                \/ Apply(p, AfterShortAuthorize(s1, TRUE, "<pendingLogout/>"))
                \/ Apply(p, AfterShortAuthorize(s1, FALSE, "media" \o N(s)))
        /\ UNCHANGED <<now, arg, ret>>

\* time passes between two reads of the clock
Tick ==
    /\ now < MaxTime
    /\ \E p \in Procs : ex[p].pc \in {"load", "authz"}
    /\ now' = now + 1
    /\ UNCHANGED <<ex, cache, arg, ret>>

(***************************** the calls checked ****************************)
RequestorIds == {"r1", "r2"}
Resources == {"g1", AUTHN_KEY, XmlG1, XmlNoGuid}
Providers == {"DTV", "Rogers", "Cablevision", "Comcast_SSO", "Verizon", "slingtv",
              "Suddenlink", "Spectrum", "Charter_Direct", "Philo"}

ExpFields == {Absent, Junk} \cup {Date(n) : n \in 0..(MaxTime + 1)}

\* What an earlier call can have left under 'authn_token', under the guid
\* and under another guid.
AuthnChoices ==
    {NoToken}
    \cup {Token("authn0", e, Absent, TRUE) : e \in ExpFields}
    \cup {Token("authn0", Future, Absent, FALSE),
          Token("authn0", Future, Date(StartTime), TRUE),
          Token("authn0", Future, Future, TRUE)}
AuthzChoices == {NoToken} \cup {Token("authz0", Absent, e, TRUE) : e \in ExpFields}
OtherChoices == {NoToken, Token("authz-g2", Absent, Future, TRUE)}

MakeRecord(a, z, o) ==
    [k \in (IF a = NoToken THEN {} ELSE {AUTHN_KEY})
           \cup (IF z = NoToken THEN {} ELSE {"g1"})
           \cup (IF o = NoToken THEN {} ELSE {"g2"}) |->
        CASE k = AUTHN_KEY -> a [] k = "g1" -> z [] OTHER -> o]

AllRecords ==
    {Unstored} \cup {Stored(MakeRecord(a, z, o)) :
                        a \in AuthnChoices, z \in AuthzChoices, o \in OtherChoices}

ValidAuthn == Token("authn0", Future, Absent, TRUE)
ValidAuthz == Token("authz0", Absent, Future, TRUE)
G2Authz == Token("authz-g2", Absent, Future, TRUE)
FewRecords ==
    {Unstored,
     Stored(MakeRecord(ValidAuthn, ValidAuthz, G2Authz)),
     Stored(MakeRecord(ValidAuthn, NoToken, NoToken)),
     Stored(MakeRecord(Token("authn0", Date(StartTime), Absent, TRUE), ValidAuthz, G2Authz))}

\* The record of the requestor id the call is not about
OtherRecord == Stored(MakeRecord(Token("authn-other", Future, Absent, TRUE), NoToken, G2Authz))

Call(rid, res, mso, rec) == [rid |-> rid, res |-> res, mso |-> mso, rec |-> rec]

\* No provider configured: every cached record, resource and requestor id.
\* A provider configured: every provider, with the records that lead into
\* each branch of the exchange.
Calls ==
    {Call(rid, res, "", rec) : rid \in RequestorIds, res \in Resources, rec \in AllRecords}
    \cup {Call("r1", res, "DTV", rec) : res \in Resources, rec \in FewRecords}
    \cup {Call("r1", "g1", mso, rec) : mso \in Providers, rec \in FewRecords}

NoArg == [fn |-> "none"]

Init ==
    /\ now = StartTime
    /\ arg = NoArg
    /\ ret = NoArg
    /\ \E c \in Calls :
          /\ cache = [r \in RequestorIds |-> IF r = c.rid THEN c.rec ELSE OtherRecord]
          /\ ex = [p \in {1} |-> NewCall(c.rid, c.res, c.mso)]

Next ==
    \/ Tick
    \/ \E p \in Procs : Begin(p)
    \/ \E p \in Procs : LoadCache(p)
    \/ \E p \in Procs : RegisterDevice(p)
    \/ \E p \in Procs : RegisterClient(p)
    \/ \E p \in Procs : AccessToken(p)
    \/ \E p \in Procs : RegCode(p)
    \/ \E p \in Procs : ProviderRedirect(p)
    \/ \E p \in Procs : DefaultRefresh(p)
    \/ \E p \in Procs : DefaultLoginPage(p)
    \/ \E p \in Procs : DefaultLogin(p)
    \/ \E p \in Procs : DefaultConfirm(p)
    \/ \E p \in Procs : ComcastAuto(p)
    \/ \E p \in Procs : ComcastRefresh(p)
    \/ \E p \in Procs : ComcastLoginPage(p)
    \/ \E p \in Procs : ComcastLogin(p)
    \/ \E p \in Procs : ComcastConfirm(p)
    \/ \E p \in Procs : VerizonSamlPage(p)
    \/ \E p \in Procs : VerizonLogin(p)
    \/ \E p \in Procs : VerizonSamlResponse(p)
    \/ \E p \in Procs : VerizonConfirm(p)
    \/ \E p \in Procs : SlingFirstBookend(p)
    \/ \E p \in Procs : SlingLogin(p)
    \/ \E p \in Procs : SlingAssociation(p)
    \/ \E p \in Procs : SlingFinalBookend(p)
    \/ \E p \in Procs : SlingConfirm(p)
    \/ \E p \in Procs : SuddenlinkContinue(p)
    \/ \E p \in Procs : SuddenlinkFirstBookend(p)
    \/ \E p \in Procs : SuddenlinkTryAuth(p)
    \/ \E p \in Procs : SuddenlinkLoginPage(p)
    \/ \E p \in Procs : SuddenlinkLogin(p)
    \/ \E p \in Procs : SuddenlinkAssociation(p)
    \/ \E p \in Procs : SuddenlinkFinalBookend(p)
    \/ \E p \in Procs : SuddenlinkConfirm(p)
    \/ \E p \in Procs : PhiloRequestCode(p)
    \/ \E p \in Procs : PhiloPrompt(p)
    \/ \E p \in Procs : PhiloSubmitCode(p)
    \/ \E p \in Procs : PhiloConfirmPage(p)
    \/ \E p \in Procs : PhiloConfirm(p)
    \/ \E p \in Procs : SpectrumLoginPage(p)
    \/ \E p \in Procs : SpectrumManualAuth(p)
    \/ \E p \in Procs : SpectrumConfirm(p)
    \/ \E p \in Procs : RetrieveSession(p)
    \/ \E p \in Procs : CheckAuthz(p)
    \/ \E p \in Procs : Authorize(p)
    \/ \E p \in Procs : ShortAuthorize(p)

Spec == Init /\ [][Next]_vars

(***************************** the helpers on their own *********************)
\* Tokens handed to is_expired: every text of either expiry element
ExpiryTokens == {Token("t", e, z, TRUE) : e \in ExpFields, z \in ExpFields}

\* Pages handed to post_form for provider mso: served over http or https
\* from the provider's host or another, with no form, or a form whose
\* action is a path, //host/path or scheme://host/path
FormInputPages(mso) ==
    LET hosts == {GoodHost(mso), EvilHost}
        urls == {Url(sch, h, "/login") : sch \in {"http", "https"}, h \in hosts}
        actions == {NoRef, Rel("/auth")}
                   \cup {NetLoc(h, "/auth") : h \in hosts}
                   \cup {Abs(sch, h, "/auth") : sch \in {"http", "https", "ftp"}, h \in hosts}
    IN  {[PlainPage(u, a) EXCEPT !.handle = h] :
            u \in urls, a \in actions, h \in BOOLEAN}

IsExpiredArgs ==
    {[fn |-> "is_expired", token |-> tok, date_ele |-> d] :
        tok \in ExpiryTokens, d \in {"simpleTokenExpires", "simpleTokenTTL"}}

PostFormArgs ==
    UNION {{[fn |-> "post_form", page |-> [pg EXCEPT !.hidden = h], data |-> d,
             validate_url |-> v, mso |-> mso] :
               pg \in FormInputPages(mso),
               h \in {Hidden0, NoFields, [csrf |-> "hidden-value", lang |-> "en"]},
               d \in {NoFields, [csrf |-> "mine", username |-> USER, password |-> PASS]},
               v \in BOOLEAN} :
           mso \in Providers \cup {""}}

InitHelpers ==
    /\ ex = [p \in {} |-> NewCall("r1", "g1", "")]
    /\ cache = [r \in RequestorIds |-> Unstored]
    /\ ret = NoArg
    /\ \/ arg \in IsExpiredArgs /\ now \in 0..(MaxTime + 1)
       \/ arg \in PostFormArgs /\ now = StartTime
       \/ /\ arg \in {[fn |-> "session_failure", mso |-> mso, status |-> st] :
                        mso \in Providers \cup {""},
                        st \in {"401", "403", "500", "no response"}}
          /\ now = StartTime
       \/ /\ arg \in {[fn |-> "extract_redirect_url",
                         html |-> Page(Url("https", IdpHost, "/page"), NoRef, Hidden0, {},
                                       [t EXCEPT !.url.esc = e]),
                         url |-> base, fatal |-> f] :
                        t \in {NoRef, Rel("/next"), NetLoc(EvilHost, "/next"),
                               Abs("http", EvilHost, "/next"),
                               Abs("https", IdpHost, "/next")},
                        e \in BOOLEAN,
                        base \in {NoUrl, Url("https", IdpHost, "/page"),
                                  Url("http", BrokerHost, "/saml")},
                        f \in BOOLEAN}
          /\ now = StartTime

CallIsExpired ==
    /\ arg.fn = "is_expired" /\ ret = NoArg
    /\ ret' = [fn |-> "is_expired", out |-> is_expired(arg.token, arg.date_ele, now)]
    /\ UNCHANGED <<ex, cache, now, arg>>

CallPostForm ==
    /\ arg.fn = "post_form" /\ ret = NoArg
    /\ ret' = [fn |-> "post_form",
               out |-> post_form(arg.page, arg.data, arg.validate_url, MSO_INFO(arg.mso))]
    /\ UNCHANGED <<ex, cache, now, arg>>

\* lines 1829-1832: the handler of a failed session request, for the call
\* of a given provider id
CallSessionFailure ==
    /\ arg.fn = "session_failure" /\ ret = NoArg
    /\ ret' = [fn |-> "session_failure",
               out |-> SessionFailure([NewCall("r1", "g1", arg.mso) EXCEPT
                                          !.pass = 1, !.pc = "session"], arg.status)]
    /\ UNCHANGED <<ex, cache, now, arg>>

CallExtractRedirect ==
    /\ arg.fn = "extract_redirect_url" /\ ret = NoArg
    /\ ret' = [fn |-> "extract_redirect_url",
               out |-> extract_redirect_url(arg.html, arg.url, arg.fatal)]
    /\ UNCHANGED <<ex, cache, now, arg>>

NextHelpers ==
    \/ CallIsExpired
    \/ CallPostForm
    \/ CallSessionFailure
    \/ CallExtractRedirect

SpecHelpers == InitHelpers /\ [][NextHelpers]_vars

(***************************** properties ***********************************)
\* The requests of pass n, in order
PassLog(s, n) ==
    LET InPass(r) == r.pass = n
    IN  SelectSeq(s.log, InPass)

\* The text of an expiry element names a time after t
Unexpired(field, t) == field.k = "date" /\ field.secs > t

Errors == {E_REQUIRED, E_REGEX, E_HOST, E_CREDS, E_BROKER, E_NET, E_KEY, E_ATTR, E_URL}

\* The record loaded at the start of the pass holds a session token and a
\* token for the guid, both expiring after now
HoldsBothTokens(s) ==
    /\ s.pass >= 1 /\ s.pc # "load" /\ s.loaded.stored
    /\ Get(s.loaded.data, AUTHN_KEY) # NoToken
    /\ Unexpired(Get(s.loaded.data, AUTHN_KEY).expires, now)
    /\ Get(s.loaded.data, s.guid) # NoToken
    /\ Unexpired(Get(s.loaded.data, s.guid).ttl, now)

\* C1: with an unexpired authn token and an unexpired authz token for the
\* guid in the cache, the pass issues no registration, login, session or
\* authorize request: its only request, if any, is shortAuthorize.
FastPath ==
    \A p \in Procs :
        HoldsBothTokens(ex[p]) =>
            /\ Len(PassLog(ex[p], ex[p].pass)) <= 1
            /\ \A i \in DOMAIN PassLog(ex[p], ex[p].pass) :
                  PassLog(ex[p], ex[p].pass)[i].kind = "shortAuthorize"
            /\ ex[p].pc \in {"authz", "short", "done"}

FastPathWitness ==
    \E p \in Procs :
        /\ HoldsBothTokens(ex[p])
        /\ ex[p].outcome = RETURNED
        /\ Len(ex[p].log) = 1
        /\ ex[p].log[1].kind = "shortAuthorize"

\* The cached session token the pass started from
LoadedAuthn(s) == Get(s.loaded.data, AUTHN_KEY)

\* The pass has loaded the cache
Loaded(s) == s.pass >= 1 /\ s.pc # "load"

\* C2: post_form with validate_url set, for a profile that declares a
\* login_hostname, raises the hostname error whenever the host of the
\* resolved form action differs from login_hostname, and then posts nothing.
HostnameMismatchSendsNothing ==
    (/\ ret.fn = "post_form"
     /\ arg.validate_url
     /\ MSO_INFO(arg.mso).login_hostname # ""
     /\ arg.page.action.k # "none"
     /\ IsHttpUrl(arg.page.action) \/ arg.page.handle
     /\ resolved_post_url(arg.page).host # MSO_INFO(arg.mso).login_hostname)
    => (ret.out.err = E_HOST /\ ret.out.url = NoUrl /\ ret.out.data = NoFields)

HostnameMismatchWitness ==
    /\ ret.fn = "post_form"
    /\ arg.validate_url
    /\ arg.mso = "Comcast_SSO"
    /\ arg.page.url.host = "login.xfinity.com"
    /\ arg.page.action = NetLoc(EvilHost, "/auth")
    /\ USER \in {arg.data[k] : k \in DOMAIN arg.data}
    /\ ret.out.err = E_HOST

\* C3: for a provider whose profile declares a login_hostname, every request
\* of a call that carries the username or the password goes to that host.
CredentialsGoToLoginHost ==
    \A p \in Procs :
        \A i \in DOMAIN ex[p].log :
            (MSO_INFO(ex[p].mso_id).login_hostname # "" /\ Carries(ex[p].log[i]))
            => ex[p].log[i].url.host = MSO_INFO(ex[p].mso_id).login_hostname

\* Verizon, third branch: the credentials went out after the login page was
\* fetched from the url the redirect page named
CredentialsWitness ==
    \E p \in Procs :
        /\ ex[p].mso_id = "Verizon"
        /\ Len(ex[p].log) >= 2
        /\ ex[p].log[Len(ex[p].log) - 1].kind = "saml_login_page"
        /\ Carries(ex[p].log[Len(ex[p].log)])
        /\ ex[p].log[Len(ex[p].log)].url = Url("https", "ssoauth.verizon.com", "/auth")

\* C4: a call makes at most two passes; a pendingLogout in pass 1 starts
\* exactly one more pass, a pendingLogout in pass 2 ends the call, and no
\* request is ever issued in a third pass.
AtMostTwoPasses ==
    \A p \in Procs :
        /\ ex[p].pass \in 0..2
        /\ \A i \in DOMAIN ex[p].log : ex[p].log[i].pass \in 1..2
        /\ Len(ex[p].logouts) <= 2
        /\ Len(ex[p].logouts) = 0 => ex[p].pass <= 1
        /\ Len(ex[p].logouts) >= 1 => ex[p].pass = 2 /\ ex[p].logouts[1].pass = 1
        /\ Len(ex[p].logouts) = 2 => ex[p].pc = "done" /\ ex[p].logouts[2].pass = 2

SecondPassWitness ==
    \E p \in Procs :
        /\ Len(ex[p].logouts) = 1
        /\ ex[p].logouts[1].at = "authorize"
        /\ ex[p].pass = 2
        /\ ex[p].outcome = RETURNED
        /\ PassLog(ex[p], 2) # <<>>

\* C5: a call that was told pendingLogout in both passes ends in an error.
SecondLogoutRaises ==
    \A p \in Procs :
        (ex[p].pc = "done" /\ Len(ex[p].logouts) = 2) => ex[p].outcome \in Errors

\* C6: a pass that starts from no session token, or from one whose expiry
\* time is not after now, with no provider id or no credentials, ends in the
\* provider-required error and issues no request.
ReauthNeedsConfiguration ==
    \A p \in Procs :
        (/\ Loaded(ex[p])
         /\ \/ LoadedAuthn(ex[p]) = NoToken
            \/ /\ LoadedAuthn(ex[p]).expires.k = "date"
               /\ LoadedAuthn(ex[p]).expires.secs <= StartTime
         /\ ex[p].mso_id = "" \/ ex[p].username = "" \/ ex[p].password = "")
        => /\ ex[p].pc = "done"
           /\ ex[p].outcome = E_REQUIRED
           /\ PassLog(ex[p], ex[p].pass) = <<>>

\* The pass issued a request of the kind
Issued(s, kind) ==
    \E i \in DOMAIN PassLog(s, s.pass) : PassLog(s, s.pass)[i].kind = kind

\* C7: a call that returns after a session and an authorize request of the
\* same pass returns the shortAuthorize response, and the cache then holds
\* the session's token under 'authn_token' and the authorize response's
\* token under the guid.
StandardFlowResult ==
    \A p \in Procs :
        (ex[p].outcome = RETURNED /\ Issued(ex[p], "session") /\ Issued(ex[p], "authorize"))
        => /\ ex[p].result = "media" \o N(ex[p])
           /\ cache[ex[p].requestor_id].stored
           /\ Get(cache[ex[p].requestor_id].data, AUTHN_KEY) = ex[p].authn_token
           /\ ex[p].authn_token.id = "authn" \o N(ex[p])
           /\ Get(cache[ex[p].requestor_id].data, ex[p].guid) = ex[p].authz_token
           /\ ex[p].authz_token.id = "authz" \o N(ex[p])

\* C8: is_expired of a token whose expiry element holds the time t is true
\* exactly when t <= now, for every t from 0 on.
ExpiredIffNotAfterNow ==
    (ret.fn = "is_expired" /\ TagText(arg.token, arg.date_ele).k = "date")
    => /\ ret.out.err = ""
       /\ ret.out.val = (TagText(arg.token, arg.date_ele).secs <= now)

\* C9: a cached session token without a simpleTokenExpires element is used
\* as the valid session token of the pass.
NoExpiryFieldIsValid ==
    \A p \in Procs :
        (/\ Loaded(ex[p])
         /\ LoadedAuthn(ex[p]) # NoToken
         /\ LoadedAuthn(ex[p]).expires.k = "absent")
        => ex[p].authn_token = LoadedAuthn(ex[p])

\* C10: a pass that loads the record of a requestor id never stored, or an
\* empty stored record, goes on with an empty record and no session token:
\* before its first request it is about to register the device or has raised
\* the provider-required error, never another error, and its first request
\* is the device registration.
UnstoredLoadsEmpty ==
    \A p \in Procs :
        (Loaded(ex[p]) /\ ex[p].loaded.data = EmptyRecord)
        => IF PassLog(ex[p], ex[p].pass) = <<>>
           THEN \/ /\ ex[p].pc = "device"
                   /\ ex[p].requestor_info = EmptyRecord
                   /\ ex[p].authn_token = NoToken
                   /\ ex[p].mso_id # ""
                \/ ex[p].pc = "done" /\ ex[p].outcome = E_REQUIRED
           ELSE PassLog(ex[p], ex[p].pass)[1].kind = "device"

UnstoredWitness ==
    \E p \in Procs :
        /\ ex[p].pass = 1
        /\ ~ex[p].loaded.stored
        /\ ~cache[ex[p].requestor_id].stored
        /\ ex[p].pc = "device"
        /\ ex[p].requestor_info = EmptyRecord

\* C11: a step that is told pendingLogout (at session, authorize or
\* shortAuthorize) leaves the requestor's cache record stored and empty, and
\* the next pass starts from that empty record.
LogoutClearsCache ==
    /\ [][\A p \in Procs :
            Len(ex'[p].logouts) > Len(ex[p].logouts)
            => cache'[ex[p].requestor_id] = Stored(EmptyRecord)]_vars
    /\ [](\A p \in Procs :
            Len(ex[p].logouts) >= 1
            => IF ex[p].pc = "load" \/ Len(ex[p].logouts) = 2
               THEN cache[ex[p].requestor_id] = Stored(EmptyRecord)
               ELSE ex[p].loaded = Stored(EmptyRecord))

\* The fast path of pass 1 was told pendingLogout, with a token for another
\* guid cached, and pass 2 has loaded the record
LogoutClearsWitness ==
    \E p \in Procs :
        /\ Len(ex[p].logouts) = 1
        /\ ex[p].logouts[1].at = "shortAuthorize"
        /\ ex[p].log[1].kind = "shortAuthorize"
        /\ ex[p].pass = 2
        /\ ex[p].pc = "device"
        /\ ex[p].loaded = Stored(EmptyRecord)

\* The session response of the pass was accepted: its token is the session
\* token of the call
SessionAccepted(s) ==
    Issued(s, "session") /\ s.authn_token.id = "authn" \o N(s) /\ s.outcome # FELL_THROUGH

\* The authorize response of the pass was accepted
AuthorizeAccepted(s) ==
    Issued(s, "authorize") /\ s.authz_token.id = "authz" \o N(s) /\ s.outcome # FELL_THROUGH

\* C12: from the step that accepts the session response on, through every
\* later request and failure of the pass, the cache holds the session's
\* token under 'authn_token'; from the step that accepts the authorize
\* response on, it holds that response's token under the guid.
CacheWritesOrdered ==
    \A p \in Procs :
        /\ SessionAccepted(ex[p])
           => /\ cache[ex[p].requestor_id].stored
              /\ Get(cache[ex[p].requestor_id].data, AUTHN_KEY) = ex[p].authn_token
        /\ AuthorizeAccepted(ex[p])
           => /\ cache[ex[p].requestor_id].stored
              /\ Get(cache[ex[p].requestor_id].data, ex[p].guid) = ex[p].authz_token

\* The last request of the call
LastRequest(s) == s.log[Len(s.log)]

MediaTokenNotCached ==
    /\ \A p \in Procs :
          ex[p].outcome = RETURNED
          => /\ ex[p].log # <<>>
             /\ LastRequest(ex[p]).kind = "shortAuthorize"
             /\ LastRequest(ex[p]).pass = ex[p].pass
             /\ ex[p].result = "media" \o N(ex[p])
    /\ \A r \in RequestorIds :
          \A k \in DOMAIN cache[r].data :
              cache[r].data[k].id \notin {"media1", "media2", "<pendingLogout/>"}

\* Returned in pass 2, after the shortAuthorize request of pass 1 was told
\* pendingLogout
MediaTokenWitness ==
    \E p \in Procs :
        /\ ex[p].outcome = RETURNED
        /\ ex[p].pass = 2
        /\ ex[p].logouts[1].at = "shortAuthorize"
        /\ ex[p].result = "media2"
        /\ cache[ex[p].requestor_id].stored

\* C15: a call ended by a transport failure ended in the pass of its last
\* request, with no pass started since; a finished call issues nothing more;
\* and the pass counter of a running call goes up only in a step that is
\* told pendingLogout.
TransportFailureAborts ==
    /\ [](\A p \in Procs :
            ex[p].outcome = E_NET
            => /\ ex[p].pc = "done"
               /\ ex[p].log # <<>>
               /\ LastRequest(ex[p]).pass = ex[p].pass
               /\ Len(ex[p].logouts) = ex[p].pass - 1)
    /\ [][\A p \in Procs :
            /\ ex[p].pc = "done" => ex'[p] = ex[p]
            /\ (ex[p].pass >= 1 /\ ex'[p].pass # ex[p].pass)
               => /\ ex'[p].pass = ex[p].pass + 1
                  /\ Len(ex'[p].logouts) = Len(ex[p].logouts) + 1]_vars

\* The credential submission of pass 2 failed in transport
TransportFailureWitness ==
    \E p \in Procs :
        /\ ex[p].outcome = E_NET
        /\ ex[p].pass = 2
        /\ Carries(LastRequest(ex[p]))
        /\ cache[ex[p].requestor_id] = Stored(EmptyRecord)

\* C16: the handler of a failed session request raises the
\* provider-required error when the failure is an HTTP 401 and no provider
\* id is configured, and re-raises the failure itself in every other case.
SessionFailureHandling ==
    ret.fn = "session_failure"
    => /\ ret.out.pc = "done"
       /\ ret.out.outcome = IF arg.mso = "" /\ arg.status = "401" THEN E_REQUIRED ELSE E_NET
       /\ ret.out.pass = 1
       /\ ret.out.log = <<>>

SessionFailureWitness ==
    /\ ret.fn = "session_failure"
    /\ arg.mso = ""
    /\ arg.status = "401"
    /\ ret.out.outcome = E_REQUIRED

\* The requests of the current pass that carry the username or the password
CredentialRequests(s) ==
    {i \in DOMAIN s.log : s.log[i].pass = s.pass /\ Carries(s.log[i])}

\* C17: when the page that answers Verizon's credential submission holds
\* 'Please try again.', the call ends at once with the invalid-credentials
\* error: the submission is its last request and the only one of the pass
\* that carries the credentials, no pass is started, and the cache is as the
\* pass loaded it.
InvalidCredentialsRaises ==
    \A p \in Procs :
        /\ (/\ ex[p].mso_id = "Verizon"
            /\ ex[p].log # <<>>
            /\ LastRequest(ex[p]).kind = "logging_in"
            /\ TRY_AGAIN \in ex[p].page.marks)
           => ex[p].outcome = E_CREDS
        /\ ex[p].outcome = E_CREDS
           => /\ ex[p].pc = "done"
              /\ LastRequest(ex[p]).kind = "logging_in"
              /\ LastRequest(ex[p]).pass = ex[p].pass
              /\ TRY_AGAIN \in ex[p].page.marks
              /\ Cardinality(CredentialRequests(ex[p])) = 1
              /\ Len(ex[p].logouts) = ex[p].pass - 1
              /\ cache[ex[p].requestor_id] = ex[p].loaded

\* Verizon, third branch: the credentials were rejected
InvalidCredentialsWitness ==
    \E p \in Procs :
        /\ ex[p].outcome = E_CREDS
        /\ Len(ex[p].log) >= 2
        /\ ex[p].log[Len(ex[p].log) - 1].kind = "saml_login_page"
        /\ LastRequest(ex[p]).url.host = "ssoauth.verizon.com"

\* The form has an action and post_form can resolve it
Resolvable(page) == page.action.k # "none" /\ (IsHttpUrl(page.action) \/ page.handle)

\* C18: post_form with validate_url set, for a resolvable action whose host
\* matches login_hostname or a profile without one, posts to the resolved
\* url with the scheme https and host and path unchanged; without
\* validate_url it posts to the resolved url as it is.
SecureSchemeUpgrade ==
    (ret.fn = "post_form" /\ Resolvable(arg.page))
    => /\ (/\ arg.validate_url
           /\ MSO_INFO(arg.mso).login_hostname
                 \in {"", resolved_post_url(arg.page).host})
          => /\ ret.out.err = ""
             /\ ret.out.url = [resolved_post_url(arg.page) EXCEPT !.scheme = "https"]
       /\ (arg.validate_url /\ ret.out.err = "") => ret.out.url.scheme = "https"
       /\ ~arg.validate_url
          => ret.out.err = "" /\ ret.out.url = resolved_post_url(arg.page)

\* A relative action on a page served over http from the pinned host
SecureSchemeWitness ==
    /\ ret.fn = "post_form"
    /\ arg.validate_url
    /\ arg.mso = "Verizon"
    /\ arg.page.url = Url("http", "ssoauth.verizon.com", "/login")
    /\ arg.page.action = Rel("/auth")
    /\ ret.out.url = Url("https", "ssoauth.verizon.com", "/auth")

\* The url a meta-refresh target names when read on a page at base
TargetOn(base, t) ==
    CASE t.k = "abs" -> Url(t.url.scheme, t.url.host, t.url.path)
      [] t.k = "netloc" -> Url(base.scheme, t.url.host, t.url.path)
      [] OTHER -> Url(base.scheme, base.host, t.url.path)

\* C19: extract_redirect_url of a page with a meta refresh returns its
\* target, unescaped and resolved against the base url when one is given; of
\* a page without one it returns None when fatal is false and raises the
\* regex error when fatal is true.
RedirectExtraction ==
    ret.fn = "extract_redirect_url"
    => IF arg.html.refresh.k = "none"
       THEN /\ arg.fatal => ret.out.err = E_REGEX
            /\ ~arg.fatal => ret.out.err = "" /\ ret.out.none
       ELSE /\ ret.out.err = ""
            /\ ~ret.out.none
            /\ arg.url # NoUrl
               => ret.out.ref = [k |-> "abs", url |-> TargetOn(arg.url, arg.html.refresh)]
            /\ arg.url = NoUrl => ret.out.ref = arg.html.refresh

\* '/next' with an HTML entity in it, read on the broker's http page
RedirectExtractionWitness ==
    /\ ret.fn = "extract_redirect_url"
    /\ arg.html.refresh.k = "rel"
    /\ arg.html.refresh.url.esc
    /\ arg.url = Url("http", BrokerHost, "/saml")
    /\ ret.out.ref = Abs("http", BrokerHost, "/next")

\* C20: the cache key of a call is the text of the <guid> element when the
\* resource is an XML fragment and the resource itself when it is a raw id;
\* the cached authorization token is read from, and a new one stored under,
\* that key and never under the fragment; every authorize request carries
\* the resource as given.
GuidKeysCache ==
    \A p \in Procs :
        /\ ex[p].pass >= 1
           => ex[p].guid = IF ex[p].resource = XmlG1 THEN "g1" ELSE ex[p].resource
        /\ ex[p].pass = 0 /\ ex[p].pc = "done" => ex[p].resource = XmlNoGuid
        /\ \A i \in DOMAIN ex[p].log :
              ex[p].log[i].kind = "authorize"
              => ex[p].log[i].data.resource_id = ex[p].resource
        /\ AuthorizeAccepted(ex[p])
           => Get(cache[ex[p].requestor_id].data, ex[p].guid) = ex[p].authz_token
        /\ (ex[p].pc = "short" /\ ~Issued(ex[p], "authorize"))
           => /\ ex[p].authz_token # NoToken
              /\ ex[p].authz_token = Get(ex[p].requestor_info, ex[p].guid)
        /\ \A r \in RequestorIds : DOMAIN cache[r].data \subseteq {AUTHN_KEY, "g1", "g2"}

\* The token of an authorize request that carried the XML fragment is
\* cached under the guid
GuidKeysWitness ==
    \E p \in Procs :
        /\ ex[p].resource = XmlG1
        /\ AuthorizeAccepted(ex[p])
        /\ LastRequest(ex[p]).kind = "authorize"
        /\ LastRequest(ex[p]).data.resource_id = XmlG1
        /\ cache[ex[p].requestor_id].data["g1"].id = "authz1"

(***************************** two calls on one requestor id ****************)
\* Two calls for requestor r1, scheduled as arg.order says.  For the guids
\* g1 and g2, with no provider configured, the calls run interleaved, or
\* exclusive: each only while the other is not in flight.  In a repeat the
\* second call has the arguments of the first and starts after the first
\* returned a media token.  The record they start from holds nothing, a
\* session token alone or with a token for g1, or tokens that expire when
\* the clock reaches MaxTime.
InitTwo ==
    /\ now = StartTime
    /\ ret = NoArg
    /\ \E rec \in {Unstored,
                    Stored(MakeRecord(ValidAuthn, NoToken, NoToken)),
                    Stored(MakeRecord(ValidAuthn, ValidAuthz, NoToken)),
                    Stored(MakeRecord(Token("authn0", Date(MaxTime), Absent, TRUE),
                                      Token("authz0", Absent, Date(MaxTime), TRUE),
                                      NoToken))} :
          cache = [r \in RequestorIds |-> IF r = "r1" THEN rec ELSE OtherRecord]
    /\ \/ /\ arg \in {[fn |-> "two_calls", order |-> o] : o \in {"interleaved", "exclusive"}}
          /\ ex = [p \in {1, 2} |-> NewCall("r1", IF p = 1 THEN "g1" ELSE "g2", "")]
       \/ /\ arg = [fn |-> "two_calls", order |-> "repeat"]
          /\ \E res \in {"g1", AUTHN_KEY}, mso \in {"", "DTV"} :
                ex = [p \in {1, 2} |-> NewCall("r1", res, mso)]

\* Alone that lets the calls interleave under every schedule
Alone_always(p) == TRUE

\* Call p may take a step
Alone(p) ==
    CASE arg.order = "interleaved" -> TRUE
      [] arg.order = "exclusive" -> \A q \in Procs \ {p} : ex[q].pc \in {"begin", "done"}
      [] arg.order = "repeat" -> p = 1 \/ ex[1].outcome = RETURNED

NextTwo ==
    \/ Tick
    \/ \E p \in Procs : Alone(p) /\ Begin(p)
    \/ \E p \in Procs : Alone(p) /\ LoadCache(p)
    \/ \E p \in Procs : Alone(p) /\ RegisterDevice(p)
    \/ \E p \in Procs : Alone(p) /\ RegisterClient(p)
    \/ \E p \in Procs : Alone(p) /\ AccessToken(p)
    \/ \E p \in Procs : Alone(p) /\ RegCode(p)
    \/ \E p \in Procs : Alone(p) /\ ProviderRedirect(p)
    \/ \E p \in Procs : Alone(p) /\ DefaultRefresh(p)
    \/ \E p \in Procs : Alone(p) /\ DefaultLoginPage(p)
    \/ \E p \in Procs : Alone(p) /\ DefaultLogin(p)
    \/ \E p \in Procs : Alone(p) /\ DefaultConfirm(p)
    \/ \E p \in Procs : Alone(p) /\ RetrieveSession(p)
    \/ \E p \in Procs : Alone(p) /\ CheckAuthz(p)
    \/ \E p \in Procs : Alone(p) /\ Authorize(p)
    \/ \E p \in Procs : Alone(p) /\ ShortAuthorize(p)

SpecTwo == InitTwo /\ [][NextTwo]_vars

\* Call p returned, with a token from its own authorize request, and was
\* never told pendingLogout
Succeeded(s) ==
    /\ s.outcome = RETURNED
    /\ s.logouts = <<>>
    /\ Issued(s, "authorize")

\* Both calls succeeded and the cache lacks the entry one of them stored
LostUpdate ==
    /\ \A p \in Procs : Succeeded(ex[p])
    /\ \E p \in Procs : Get(cache[ex[p].requestor_id].data, ex[p].guid) # ex[p].authz_token

\* C21: with at most one call in flight at a time, after both calls
\* succeeded the cache holds the authorization token of each under its guid.
\* (Without that restriction the state LostUpdateWitness is reachable.)
NoLostUpdateWhenExclusive ==
    arg.fn = "two_calls" /\ arg.order = "exclusive" => ~LostUpdate

\* The two calls interleaved, both succeeded, and the entry for g1 is gone
LostUpdateWitness ==
    /\ arg.fn = "two_calls"
    /\ arg.order = "interleaved"
    /\ LostUpdate
    /\ "g1" \notin DOMAIN cache["r1"].data
    /\ "g2" \in DOMAIN cache["r1"].data

\* The first call returned a media token, its tokens have not expired, and
\* the repeated call has not been told pendingLogout
RepeatUnexpired ==
    /\ arg.fn = "two_calls" /\ arg.order = "repeat"
    /\ ex[1].outcome = RETURNED
    /\ Unexpired(ex[1].authn_token.expires, now)
    /\ Unexpired(ex[1].authz_token.ttl, now)

\* C22: after a call returned a media token, every step of a repeated call
\* with the same arguments, taken while the tokens are unexpired and without
\* a pendingLogout, leaves the cache as the first call left it, and the
\* repeated call issues no request other than shortAuthorize.
IdempotentRepeat ==
    [][(RepeatUnexpired /\ ex'[2] # ex[2] /\ ex'[2].logouts = <<>>)
        => /\ cache' = cache
           /\ \A i \in DOMAIN ex'[2].log : ex'[2].log[i].kind = "shortAuthorize"]_vars

\* The first call logged in and authorized, and the repeated call returned
\* after a single shortAuthorize request
IdempotentRepeatWitness ==
    /\ RepeatUnexpired
    /\ Issued(ex[1], "device") /\ Issued(ex[1], "session") /\ Issued(ex[1], "authorize")
    /\ ex[2].outcome = RETURNED
    /\ ex[2].logouts = <<>>
    /\ Len(ex[2].log) = 1
    /\ Get(cache["r1"].data, ex[2].guid) = ex[1].authz_token

\* The requests of the kind the call has issued, in order
Requests(s, kind) ==
    LET OfKind(r) == r.kind = kind
    IN  SelectSeq(s.log, OfKind)

\* C23: during one call the device-registration request is issued at most
\* once.
OneRegistrationPerCall ==
    \A p \in Procs : Len(Requests(ex[p], "device")) <= 1

\* The place of a request in a pass: the four registration requests, the
\* provider redirect, the requests of the login driver (6), session,
\* authorize, shortAuthorize
Rank(kind) ==
    CASE kind = "device" -> 1
      [] kind = "client" -> 2
      [] kind = "token" -> 3
      [] kind = "regcode" -> 4
      [] kind = "redirect" -> 5
      [] kind = "session" -> 7
      [] kind = "authorize" -> 8
      [] kind = "shortAuthorize" -> 9
      [] OTHER -> 6

\* A request of rank b may directly follow one of rank a
Follows(a, b) ==
    CASE b = 1 -> FALSE
      [] b \in 2..5 -> a = b - 1
      [] b = 6 -> a \in {5, 6}
      [] b = 7 -> a = 6
      [] b = 8 -> a = 7
      [] b = 9 -> a \in {7, 8}

\* C24: the requests of a pass come in the order device, client, access
\* token, registration code, provider redirect, login driver, session, none
\* skipped; a pass that does not re-authenticate starts at authorize or
\* shortAuthorize; an authorize request carries a session token and a
\* shortAuthorize request an authorization token.
OrderedRequests ==
    \A p \in Procs : \A n \in 1..MaxPasses :
        LET L == PassLog(ex[p], n)
        IN  \A i \in DOMAIN L :
               /\ IF i = 1 THEN Rank(L[i].kind) \in {1, 8, 9}
                  ELSE Follows(Rank(L[i - 1].kind), Rank(L[i].kind))
               /\ L[i].kind = "authorize" => L[i].data.authentication_token # NoToken.id
               /\ L[i].kind = "shortAuthorize" => L[i].data.authz_token # NoToken.id

\* A call returned after a pass with every request from the device
\* registration to shortAuthorize
OrderedRequestsWitness ==
    \E p \in Procs :
        /\ ex[p].outcome = RETURNED
        /\ \A k \in {"device", "client", "token", "regcode", "redirect", "session",
                     "authorize", "shortAuthorize"} : Issued(ex[p], k)
        /\ ex[p].authn_token # NoToken /\ ex[p].authz_token # NoToken

StoresKeepOtherEntries ==
    [][\A p \in Procs :
          LET s == ex[p]
              old == cache[s.requestor_id].data
              new == cache'[s.requestor_id].data
          IN  (cache' # cache /\ ex'[p] # s) =>
                 IF ex'[p].logouts # s.logouts THEN new = EmptyRecord
                 ELSE /\ s.pc \in {"session", "authorize"}
                      /\ \A k \in DOMAIN old \ {AUTHN_KEY} :
                            \/ s.pc = "authorize" /\ k = s.guid
                            \/ k \in DOMAIN new /\ new[k] = old[k]]_vars

\* The call found an expired session token, logged in again and stored the
\* new session token; the entries for g1 and g2 are still cached
StoresKeepWitness ==
    \E p \in Procs :
        /\ ex[p].pc = "authz"
        /\ ex[p].logouts = <<>>
        /\ Issued(ex[p], "session")
        /\ LoadedAuthn(ex[p]) # NoToken
        /\ Get(cache[ex[p].requestor_id].data, AUTHN_KEY) = AuthnFresh("1")
        /\ Get(cache[ex[p].requestor_id].data, "g1") = ValidAuthz
        /\ Get(cache[ex[p].requestor_id].data, "g2") = G2Authz

\* The text of an expiry element names a time not after the start of the call
ExpiredAtStart(field) == field.k = "date" /\ field.secs <= StartTime

\* The kinds of the requests of pass 1, in order
Kinds(s) == [i \in DOMAIN PassLog(s, 1) |-> PassLog(s, 1)[i].kind]

\* C27: in the pass that loaded the record the call started with, (a) an
\* unexpired authn token with no or an expired authz token for the guid
\* leads to authorize followed by shortAuthorize and nothing else, without a
\* provider id; (b) an expired authn token leads to the full
\* re-authentication (device registration first, or the provider-required
\* error), whatever authz token is cached.
TokensExpireIndependently ==
    \A p \in Procs :
        LET s == ex[p]
            authn == LoadedAuthn(s)
            authz == Get(s.loaded.data, s.guid)
        IN  (s.pass = 1 /\ s.pc # "load" /\ s.guid # AUTHN_KEY) =>
              /\ (/\ authn # NoToken /\ Unexpired(authn.expires, now)
                  /\ authz = NoToken \/ ExpiredAtStart(authz.ttl))
                 => /\ Kinds(s) \in {<<>>, <<"authorize">>, <<"authorize", "shortAuthorize">>}
                    /\ s.outcome # E_REQUIRED
                    /\ s.outcome = RETURNED => Len(Kinds(s)) = 2
              /\ (authn # NoToken /\ ExpiredAtStart(authn.expires))
                 => /\ s.authn_token # authn
                    /\ IF Kinds(s) = <<>> THEN s.pc = "device" \/ s.outcome = E_REQUIRED
                       ELSE Kinds(s)[1] = "device"

\* C28: the authorize step's store leaves the cached authn token as it was,
\* and the session step's store leaves every cached entry under a guid as it
\* was, for every guid, 'authn_token' included.
DisjointSlots ==
    [][\A p \in Procs :
          LET s == ex[p]
              old == cache[s.requestor_id].data
              new == cache'[s.requestor_id].data
          IN  /\ (s.pc = "authorize" /\ ex'[p].pc = "short")
                 => Get(new, AUTHN_KEY) = Get(old, AUTHN_KEY)
              /\ (s.pc = "session" /\ ex'[p].pc = "authz")
                 => \A k \in DOMAIN old \ {AUTHN_KEY} : Get(new, k) = old[k]]_vars

\* The kinds of the requests the driver issued in pass n, after the provider
\* redirect and before the session request
DriverKinds(s, n) ==
    LET InDriver(r) == r.pass = n /\ Rank(r.kind) = 6
        L == SelectSeq(s.log, InDriver)
    IN  [i \in DOMAIN L |-> L[i].kind]

\* The default driver's requests in order: the meta-refresh hop if hop, the
\* login page, the credentials, the confirmation unless Rogers
DefaultSequence(mso, hop) ==
    (IF hop THEN <<"redirect_refresh">> ELSE <<>>)
    \o <<"login_page", "logging_in">>
    \o (IF mso = "Rogers" THEN <<>> ELSE <<"confirm">>)

\* s is a prefix of t
IsPrefix(s, t) == Len(s) <= Len(t) /\ \A i \in DOMAIN s : s[i] = t[i]

\* C29: for a provider without a driver of its own, the driver's requests of
\* a pass are a prefix of: the hop (or not), the login page, one
\* credential POST, one confirmation POST unless the provider is Rogers, and
\* all of them once the session request is issued; the credential POST is
\* validated (it goes out over https); and the first request after the
\* redirect page is the hop exactly when the page names a meta-refresh
\* target.
DefaultDriver ==
    /\ [](\A p \in Procs : \A n \in 1..MaxPasses :
            LET s == ex[p]
                K == DriverKinds(s, n)
                S == {DefaultSequence(s.mso_id, hop) : hop \in BOOLEAN}
            IN  IsDefault(s.mso_id) =>
                  /\ \E t \in S : IsPrefix(K, t)
                  /\ (\E i \in DOMAIN s.log : s.log[i].pass = n /\ s.log[i].kind = "session")
                     => K \in S
                  /\ \A i \in DOMAIN s.log :
                        s.log[i].kind = "logging_in"
                        => Carries(s.log[i]) /\ s.log[i].url.scheme = "https")
    /\ [][\A p \in Procs :
            LET s == ex[p]
            IN  (s.pc = "login" /\ IsDefault(s.mso_id) /\ ex'[p] # s)
                => ((Len(ex'[p].log) > Len(s.log)
                      /\ LastRequest(ex'[p]).kind = "redirect_refresh")
                    <=> ~extract_redirect_url(s.page, s.page.url, FALSE).none)]_vars

\* Rogers: the redirect page named a meta-refresh target, the hop was taken
\* and the session request followed the credential POST with no confirmation
DefaultDriverWitness ==
    \E p \in Procs :
        /\ ex[p].mso_id = "Rogers"
        /\ ex[p].pass = 1
        /\ ex[p].pc = "authz"
        /\ DriverKinds(ex[p], 1) = <<"redirect_refresh", "login_page", "logging_in">>

\* The request is the validated submission of the credentials
CredentialPost(s, req) ==
    /\ req.kind = "logging_in"
    /\ Carries(req)
    /\ req.url.scheme = "https"
    /\ req.url.host = MSO_INFO(s.mso_id).login_hostname

\* Comcast_SSO: what the step t after the redirect page (call s) may have
\* sent.  With an auto-login marker, one confirmation without form fields,
\* then the session request.  With a sign-in form, the credentials.
\* Otherwise the meta-refresh hop; when form_fallback, a page without
\* http-equiv="refresh" has its form submitted instead, without credentials.
ComcastFirstStep(s, t, form_fallback) ==
    LET sent == Len(t.log) > Len(s.log)
        req == LastRequest(t)
    IN  IF ComcastAutoLogin(s)
        THEN /\ t.pc \in {"session", "done"}
             /\ sent => req.kind = "confirm_auto_login" /\ req.data = NoFields
        ELSE IF SIGNIN_FORM \in s.page.marks
        THEN sent => CredentialPost(s, req)
        ELSE /\ t.pc \in {"cc_login", "done"}
             /\ sent =>
                   IF form_fallback /\ REFRESH_ATTR \notin s.page.marks
                   THEN /\ ~Carries(req)
                        /\ req.url = resolved_post_url(s.page)
                        /\ req.data = s.page.hidden
                   ELSE /\ req.data = NoFields
                        /\ req.url = extract_redirect_url(s.page, NoUrl, TRUE).ref.url

\* The requests of the Comcast_SSO driver in every pass: an auto-login
\* confirmation is the driver's only request and the pass sends no
\* credentials; credentials go out only in the validated submission, at most
\* once a pass
ComcastRequests ==
    \A p \in Procs : \A n \in 1..MaxPasses :
        LET s == ex[p]
            K == DriverKinds(s, n)
        IN  s.mso_id = "Comcast_SSO" =>
              /\ (\E i \in DOMAIN K : K[i] = "confirm_auto_login")
                 => /\ K = <<"confirm_auto_login">>
                    /\ \A i \in DOMAIN s.log : s.log[i].pass = n => ~Carries(s.log[i])
              /\ \A i \in DOMAIN s.log : Carries(s.log[i]) => CredentialPost(s, s.log[i])
              /\ Cardinality({i \in DOMAIN s.log : s.log[i].pass = n /\ Carries(s.log[i])}) <= 1

\* A step of the Comcast_SSO driver: after the redirect page as
\* ComcastFirstStep says; after the login page nothing but the credentials
ComcastSteps(form_fallback) ==
    \A p \in Procs :
        LET s == ex[p]
            t == ex'[p]
        IN  (s.mso_id = "Comcast_SSO" /\ t # s) =>
              /\ s.pc = "login" => ComcastFirstStep(s, t, form_fallback)
              /\ (s.pc = "cc_login" /\ Len(t.log) > Len(s.log))
                 => CredentialPost(s, LastRequest(t))

\* C30, as claimed: a redirect page with neither auto-login marker and no
\* sign-in form is always followed by the meta-refresh hop.
ComcastDriverHopWithoutForm == []ComcastRequests /\ [][ComcastSteps(FALSE)]_vars

\* C30: Comcast_SSO with an auto-login marker issues one confirmation
\* without credentials and no request that carries them; with neither marker
\* the credentials are submitted with url validation, at once when the page
\* holds the sign-in form, after the meta-refresh hop when it holds
\* http-equiv="refresh" instead, and after submitting the page's own form
\* when it holds neither.
ComcastDriver == []ComcastRequests /\ [][ComcastSteps(TRUE)]_vars

\* The redirect page held no marker, no sign-in form and no meta refresh:
\* its form was submitted, then the credentials, then the session request
ComcastDriverWitness ==
    \E p \in Procs :
        /\ ex[p].mso_id = "Comcast_SSO"
        /\ ex[p].pass = 1
        /\ ex[p].pc = "authz"
        /\ DriverKinds(ex[p], 1) = <<"login_page", "logging_in">>
        /\ \E i \in DOMAIN ex[p].log :
              ex[p].log[i].kind = "login_page" /\ ex[p].log[i].data = Hidden0

\* The five requests of a tab-history driver, in the order of the claim
TabHistorySequence ==
    <<"first_bookend", "logging_in", "association_redirect", "final_bookend", "confirm">>

\* Those of the driver's requests of pass n that are among the five
TabHistoryKinds(s, n) ==
    LET Named(k) == \E i \in DOMAIN TabHistorySequence : TabHistorySequence[i] = k
    IN  SelectSeq(DriverKinds(s, n), Named)

\* The value a bookend request carries under 'history' or 'history_val'
HistoryValue(s, req) ==
    req.data[IF s.mso_id = "slingtv" THEN "history" ELSE "history_val"]

\* C31: in every pass of slingtv and Suddenlink the bookend with history
\* value 1, the validated credential POST, the GET of the redirect target,
\* the bookend with history value 3 and the confirmation POST are issued in
\* this order, each at most once and none skipped, and all five before the
\* session request.
TabHistoryOrder ==
    \A p \in Procs : \A n \in 1..MaxPasses :
        LET s == ex[p]
        IN  s.mso_id \in {"slingtv", "Suddenlink"} =>
              /\ IsPrefix(TabHistoryKinds(s, n), TabHistorySequence)
              /\ (\E i \in DOMAIN s.log : s.log[i].pass = n /\ s.log[i].kind = "session")
                 => TabHistoryKinds(s, n) = TabHistorySequence
              /\ \A i \in DOMAIN s.log :
                    /\ s.log[i].kind = "first_bookend" => HistoryValue(s, s.log[i]) = "1"
                    /\ s.log[i].kind = "final_bookend" => HistoryValue(s, s.log[i]) = "3"
                    /\ s.log[i].kind = "logging_in"
                       => /\ Carries(s.log[i])
                          /\ s.log[i].url.scheme = "https"
                          /\ MSO_INFO(s.mso_id).login_hostname \in {"", s.log[i].url.host}
                    /\ s.log[i].kind \in {"association_redirect", "confirm"}
                       => ~Carries(s.log[i])

\* Suddenlink went through the ajaxurl step and all five requests
TabHistoryWitness ==
    \E p \in Procs :
        /\ ex[p].mso_id = "Suddenlink"
        /\ ex[p].pass = 1
        /\ ex[p].pc = "authz"
        /\ DriverKinds(ex[p], 1) =
              <<"pressing_continue", "first_bookend", "tryauth", "login_page", "logging_in",
                "association_redirect", "final_bookend", "confirm">>

\* The confirmation POST a client-side SAML pass has just issued
SpectrumConfirmed(s) ==
    /\ s.mso_id \in {"Spectrum", "Charter_Direct"}
    /\ s.pc = "session"
    /\ s.log # <<>>
    /\ s.log[Len(s.log)].kind = "confirm"

\* C32: the confirmation POST of the client-side SAML driver goes to the
\* SAMLRedirectUri of the authentication API's answer and carries the
\* SAMLResponse and the RelayState of that same answer.
SpectrumPostsApiPair ==
    \A p \in Procs :
        LET s == ex[p]
            post == s.log[Len(s.log)]
        IN  SpectrumConfirmed(s) =>
              /\ post.url = s.saml_response_json.SAMLRedirectUri
              /\ post.data.SAMLResponse = s.saml_response_json.SAMLResponse
              /\ post.data.RelayState = s.saml_response_json.RelayState

\* The requests of the OTP driver, in the order of the claim
PhiloSequence ==
    <<"philo_code_request", "philo_code_submit", "philo_confirm_page", "confirm">>

\* The requests of a Philo call: the driver's requests of each pass follow
\* PhiloSequence, and nothing the call sends holds the password.
PhiloRequests ==
    \A p \in Procs :
        LET s == ex[p]
        IN  s.mso_id = "Philo" =>
              /\ \A n \in 1..MaxPasses :
                    /\ IsPrefix(DriverKinds(s, n), PhiloSequence)
                    /\ (\E i \in DOMAIN s.log : s.log[i].pass = n /\ s.log[i].kind = "session")
                       => DriverKinds(s, n) = PhiloSequence
              /\ \A i \in DOMAIN s.log : \A k \in DOMAIN s.log[i].data :
                    s.log[i].data[k] # PASS

\* The prompt of a Philo call: it opens only once the code request has been
\* answered, and the submission is sent only after it returned, with the
\* code it returned.
PhiloSteps ==
    \A p \in Procs :
        LET s == ex[p]
            t == ex'[p]
            last == t.log[Len(t.log)]
        IN  /\ (t.pc = "ph_prompt" /\ s.pc # "ph_prompt")
               => /\ Len(t.log) = Len(s.log) + 1
                  /\ last.kind = "philo_code_request"
            /\ (t.pc = "ph_submit" /\ s.pc # "ph_submit")
               => s.pc = "ph_prompt" /\ t.log = s.log /\ t.philo_code \in PhiloCodes
            /\ (Len(t.log) = Len(s.log) + 1 /\ last.kind = "philo_code_submit")
               => s.pc = "ph_submit" /\ last.data = [token |-> s.philo_code]

\* C33: a Philo pass sends the code request, prompts, submits the code the
\* prompt returned, GETs the confirmation page and POSTs its form, in this
\* order; the submission never precedes the return of the prompt and no
\* request carries the password.
PhiloDriver == []PhiloRequests /\ [][PhiloSteps]_vars

\* A Philo pass went through all its steps and the session was accepted
PhiloDriverWitness ==
    \E p \in Procs :
        /\ ex[p].mso_id = "Philo"
        /\ ex[p].pc = "authz"
        /\ ex[p].philo_code = "123456"
        /\ ex[p].password = PASS
        /\ DriverKinds(ex[p], ex[p].pass) = PhiloSequence

\* C34: the form post_form sends holds exactly the page's hidden inputs and
\* the caller's fields; a field the caller gives has the caller's value, and
\* a hidden input the caller does not give has the value of the page.
PostFormMerges ==
    (ret # NoArg /\ ret.fn = "post_form" /\ ret.out.err = "") =>
        LET hidden == arg.page.hidden
            form_data == ret.out.data
        IN  /\ DOMAIN form_data = DOMAIN hidden \cup DOMAIN arg.data
            /\ \A k \in DOMAIN arg.data : form_data[k] = arg.data[k]
            /\ \A k \in DOMAIN hidden \ DOMAIN arg.data : form_data[k] = hidden[k]

\* A post with one hidden input overridden and another one kept
PostFormMergesWitness ==
    /\ ret # NoArg /\ ret.fn = "post_form" /\ ret.out.err = ""
    /\ arg.page.hidden = [csrf |-> "hidden-value", lang |-> "en"]
    /\ arg.data = [csrf |-> "mine", username |-> USER, password |-> PASS]
    /\ ret.out.data = [csrf |-> "mine", lang |-> "en", username |-> USER, password |-> PASS]

\* Pass 1 of the call ran on a cached authn token and the broker answered
\* its authorize or its shortAuthorize request with pendingLogout
CachedThenLoggedOut(s) ==
    /\ s.pass = 2
    /\ Len(s.logouts) = 1
    /\ s.logouts[1].at \in {"authorize", "shortAuthorize"}
    /\ \A i \in DOMAIN s.log :
          s.log[i].pass = 1 => s.log[i].kind \in {"authorize", "shortAuthorize"}

\* C35: after a pendingLogout at the authorize or media-token step of a pass
\* that ran on a cached authn token, pass 2 starts on a cleared record; it
\* sends a request only with a provider id and both credentials, and without
\* them the call ends with the configuration-required error, no request
\* sent in pass 2 and the record still empty.
LogoutThenConfiguration ==
    \A p \in Procs :
        LET s == ex[p]
            configured == s.mso_id # "" /\ s.username # "" /\ s.password # ""
        IN  CachedThenLoggedOut(s) =>
              /\ s.pc = "load" => cache[s.requestor_id] = Stored(EmptyRecord)
              /\ PassLog(s, 2) # <<>> => configured
              /\ (s.pc # "load" /\ ~configured)
                 => /\ s.pc = "done"
                    /\ s.outcome = E_REQUIRED
                    /\ PassLog(s, 2) = <<>>
                    /\ cache[s.requestor_id] = Stored(EmptyRecord)

\* The call without a provider id ended in pass 2, after a logout at the
\* media-token step
LogoutThenConfigurationWitness ==
    \E p \in Procs :
        /\ CachedThenLoggedOut(ex[p])
        /\ ex[p].logouts[1].at = "shortAuthorize"
        /\ ex[p].mso_id = ""
        /\ ex[p].outcome = E_REQUIRED
        /\ cache[ex[p].requestor_id] = Stored(EmptyRecord)

\* The call is configured for re-authentication (lines 1472-1476)
Configured(s) == s.mso_id # "" /\ s.username # "" /\ s.password # ""

\* C36: a session request is sent only in a pass that passed the
\* configuration check and re-authenticated, so with a provider id and both
\* credentials; no call without provider id has a session request, failed or
\* not, and the configuration-required error is raised only by that check,
\* before the pass has sent anything.
SessionOnlyWhenConfigured ==
    \A p \in Procs :
        LET s == ex[p]
        IN  /\ s.pc = "session" => Configured(s)
            /\ \A i \in DOMAIN s.log :
                  s.log[i].kind = "session"
                  => /\ Configured(s)
                     /\ PassLog(s, s.log[i].pass)[1].kind = "device"
            /\ s.outcome = E_REQUIRED => PassLog(s, s.pass) = <<>>

\* The session request of a configured call failed
SessionOnlyWhenConfiguredWitness ==
    \E p \in Procs :
        /\ ex[p].pc = "done"
        /\ ex[p].outcome = E_NET
        /\ ex[p].log # <<>>
        /\ ex[p].log[Len(ex[p].log)].kind = "session"
        /\ Configured(ex[p])

\* The call is in a pass that re-authenticates and has not accepted a
\* session response yet, or it failed there
BeforeSessionAccepted(s) ==
    /\ s.pass >= 1
    /\ s.pc # "load"
    /\ s.authn_token = NoToken
    /\ s.outcome # FELL_THROUGH

\* C37: as long as a re-authenticating pass has not accepted a session
\* response, and when the call fails before that, the pass has stored
\* nothing: the cache holds for the requestor what the pass loaded.
NoStoreBeforeSession ==
    \A p \in Procs :
        BeforeSessionAccepted(ex[p]) => cache[ex[p].requestor_id] = ex[p].loaded

\* The session response lacked the token field, with a record in the cache
NoStoreBeforeSessionWitness ==
    \E p \in Procs :
        /\ BeforeSessionAccepted(ex[p])
        /\ ex[p].pc = "done"
        /\ ex[p].outcome = E_REGEX
        /\ ex[p].log # <<>>
        /\ ex[p].log[Len(ex[p].log)].kind = "session"
        /\ ex[p].loaded.stored
        /\ cache[ex[p].requestor_id] = ex[p].loaded

\* The session and authorize requests of the retry pass
RetryRequests(s) ==
    {i \in DOMAIN s.log : s.log[i].pass = 2 /\ s.log[i].kind \in {"session", "authorize"}}

\* The device and authorization headers of the retry pass's requests are
\* those of its own registration
RetryRegistrationFresh ==
    \A p \in Procs : \A i \in RetryRequests(ex[p]) :
        LET headers == ex[p].log[i].headers
        IN  /\ headers.Ap_21 = "device2"
            /\ headers.pass_sfp = "sfp2"
            /\ headers.Authorization = "Bearer2"

\* C38: the session and authorize requests of the retry pass carry the
\* device and authorization headers of the retry pass's own registration,
\* and session identifiers (ap_19, ap_23) only of a token of the retry
\* pass, never of the pass-1 token the broker reported as logged out.
RetryHeadersFresh ==
    /\ RetryRegistrationFresh
    /\ \A p \in Procs : \A i \in RetryRequests(ex[p]) :
          LET headers == ex[p].log[i].headers
          IN  \A k \in {"ap_19", "ap_23"} \cap DOMAIN headers : headers[k] = "authn2"

\* The ids of the authn tokens the broker reported to call s as logged out,
\* at its authorize or its shortAuthorize request
ReportedLoggedOut(s) ==
    {s.log[i].data.authentication_token :
        i \in {j \in DOMAIN s.log :
                 /\ s.log[j].kind = "authorize"
                 /\ \E l \in DOMAIN s.logouts :
                       s.logouts[l] = [pass |-> s.log[j].pass, at |-> "authorize"]}}
    \cup {s.log[i].data.session_guid :
            i \in {j \in DOMAIN s.log :
                     /\ s.log[j].kind = "shortAuthorize"
                     /\ \E l \in DOMAIN s.logouts :
                           s.logouts[l] = [pass |-> s.log[j].pass, at |-> "shortAuthorize"]}}

\* The record r holds an authn token with this id
HoldsAuthn(r, id) == Get(r, AUTHN_KEY) # NoToken /\ Get(r, AUTHN_KEY).id = id

\* Call p was told that the token is logged out, and cleared the record;
\* the cache holds the token again, stored by call q with the record that q
\* had loaded
Resurrected(p, q) ==
    /\ \E id \in ReportedLoggedOut(ex[p]) :
          /\ HoldsAuthn(cache[ex[p].requestor_id].data, id)
          /\ HoldsAuthn(ex[q].loaded.data, id)
          /\ ex[q].requestor_id = ex[p].requestor_id
          /\ Issued(ex[q], "authorize")
          /\ HoldsAuthn(ex[q].requestor_info, id)

\* C39: a record cleared by one call on pendingLogout holds the logged-out
\* authn token again only when the calls interleave and a call has stored,
\* after the clear, the record it had loaded with the token in it; with that
\* schedule the other call's store brings the token back
\* (ResurrectedWitness).  Stated for two calls that cannot re-authenticate,
\* so that the broker issues no new authn token in between.
ResurrectedOnlyByStaleStore ==
    \A p \in Procs :
        (/\ arg.fn = "two_calls" /\ arg.order \in {"interleaved", "exclusive"}
         /\ \E id \in ReportedLoggedOut(ex[p]) :
               HoldsAuthn(cache[ex[p].requestor_id].data, id))
        => /\ arg.order = "interleaved"
           /\ \E q \in Procs : Resurrected(p, q)

\* Call 1 was logged out and cleared the record, call 2 then stored the
\* record it had loaded earlier and returned
ResurrectedWitness ==
    /\ arg.fn = "two_calls" /\ arg.order = "interleaved"
    /\ Resurrected(1, 2)
    /\ ex[1].logouts # <<>>
    /\ ex[2].outcome = RETURNED
    /\ ex[2].logouts = <<>>
    /\ HoldsAuthn(cache["r1"].data, "authn0")

====
